---------------------------- MODULE Spec2Model ----------------------------
(***************************************************************************)
(* A model of ecs-cluster-scaledown: the three variants of the scale-down  *)
(* script kept in the repository.                                          *)
(*                                                                         *)
(*   "poll"    src/ecs_cluster_scaledown.py             (drain, then poll  *)
(*             until terminable or MAX_WAIT; no zones, floor-aware)        *)
(*   "ecs"     src/ecs/ecs_cluster_scaledown.py         (command line,     *)
(*             zone-balanced, no polling)                                  *)
(*   "lambda"  src/lambda/src/ecs_cluster_scaledown.py  (event handler,    *)
(*             zone-balanced, no polling)                                  *)
(*                                                                         *)
(* A container instance is named by its position in the cluster listing;   *)
(* its EC2 instance has the same name.  A task group, and an ignore-list   *)
(* entry, is a tuple of characters, so that Python's `ignore in group`     *)
(* is a substring test the model really computes.                          *)
(***************************************************************************)
EXTENDS Integers, Sequences, FiniteSets, TLC

VARIABLES
    suspended,          \* a second run against the same cluster that is not executing
                        \* now: its own args, position, listings, plan and calls
    runs,               \* the invocations started against the cluster, this one included
    termination,        \* _terminate_and_remove_from_autoscaling_group called by itself:
                        \* its backing calls and the status it read
    listed,             \* _get_instances_in_cluster called by itself: its result and the
                        \* list_container_instances queries it issued
    args,               \* the invocation: variant, py, count, dry_run, ignore_list, MAX_WAIT,
                        \* instance_ids, alarm
    hosts,              \* the cluster: per container instance its az, status and tasks
    asg,                \* the scaling group as the host's tags and the ASG API show it
    faults,             \* how many more backing calls may fail in this run
    clock,              \* seconds since the polling loop logged its start time
    sweeps,             \* polling sweeps that ended in a sleep
    pc,                 \* position of the run
    draining_instances, \* the handler's pre-flight listing of DRAINING instances
    container_instance_id, \* remove_instance_from_ecs_cluster: the instance removed
    ordered_instances,  \* scale_down_ecs_cluster: the ranked listing
    decrease_count,     \* scale_down_ecs_cluster: the (clamped) count
    azs,                \* scale_down_ecs_cluster: zone -> container instances left
    az_names,           \* scale_down_ecs_cluster: the zones as the dict enumerates them
    terminate_list,     \* scale_down_ecs_cluster: the removal plan / the pending list
    x,                  \* scale_down_ecs_cluster: picks done by the two-zone loop
    idx,                \* the removal loop: hosts of the plan already handled
    drain_calls,        \* update_container_instances_state calls issued (their host lists)
    term_calls,         \* terminate_instance_in_auto_scaling_group calls issued
    errors,             \* the logging.error records written, by kind
    ret                 \* what the operation returned (or how it ended)

vars == <<suspended, runs, termination, listed, args, hosts, asg, faults, clock, sweeps,
          pc, draining_instances, container_instance_id, ordered_instances,
          decrease_count, azs, az_names,
          terminate_list, x, idx, drain_calls, term_calls, errors, ret>>

-----------------------------------------------------------------------------
(* Bounds of the model. *)

MaxHosts == 4
MaxLoad == 1
MaxMinSize == 1
MaxCount == 3

\* the number of task ARNs one list_tasks page holds
PageSize == 4

\* polling sweeps that are counted
MaxSweeps == 3

\* time.sleep(60) between two sweeps
SleepSeconds == 60

\* running_time_seconds // 3600
SecondsPerHour == 3600

\* Zone names are labels: three of them give every topology the code
\* distinguishes (one zone, two zones, more than two).
Zones == {1, 2, 3}

\* The characters task groups and ignore-list entries are made of.
Chars == {"a", "b"}

-----------------------------------------------------------------------------
(* Helpers. *)

Max(a, b) == IF a >= b THEN a ELSE b

Min(a, b) == IF a <= b THEN a ELSE b

Abs(a) == IF a >= 0 THEN a ELSE 0 - a

Range(s) == {s[i] : i \in 1..Len(s)}

\* s[:k] of Python, for k >= 0
Prefix(s, k) == SubSeq(s, 1, Min(k, Len(s)))

-----------------------------------------------------------------------------
(* The cluster as the backing APIs show it. *)

\* _get_instances_in_cluster(status=...): the container instances registered
\* in the cluster, in listing order; status "ANY" stands for no status filter.
\* A terminated instance (GONE) is no longer listed.
RECURSIVE get_instances_from(_, _)
get_instances_from(i, status) ==
    IF i > Len(hosts) THEN <<>>
    ELSE (IF /\ hosts[i].status # "GONE"
             /\ (status = "ANY" \/ hosts[i].status = status)
          THEN <<i>> ELSE <<>>) \o get_instances_from(i + 1, status)

get_instances_in_cluster(status) == get_instances_from(1, status)

\* _get_instance_task_count: the length of the first page of list_tasks
get_instance_task_count(ci) == Min(Len(hosts[ci].tasks), PageSize)

\* _get_instance_tasks: list_tasks followed through its nextToken.  When a
\* page carries a nextToken the function calls itself: with the keyword
\* container_instance_id in the event-handler variant, and with the keyword
\* containerInstance, which the function does not have (TypeError), in the
\* other two.
get_instance_tasks(ci) ==
    IF Len(hosts[ci].tasks) > PageSize /\ args.variant # "lambda"
    THEN [raised |-> TRUE, taskArns |-> <<>>]
    ELSE [raised |-> FALSE, taskArns |-> hosts[ci].tasks]

\* _get_instance_az(_get_instance_id(...))
get_instance_az(ci) == hosts[ci].az

\* (mutant) a sort that is not stable: an item goes before the items of its key
insert_before_equal_task_count(item, t) ==
    LET k == Cardinality({j \in 1..Len(t) : t[j].task_count < item.task_count})
    IN  SubSeq(t, 1, k) \o <<item>> \o SubSeq(t, k + 1, Len(t))

\* sorted(..., key=itemgetter('task_count')): a stable sort, each item
\* going after the items before it whose key is not greater
insert_by_task_count(item, t) ==
    LET k == Cardinality({j \in 1..Len(t) : t[j].task_count <= item.task_count})
    IN  SubSeq(t, 1, k) \o <<item>> \o SubSeq(t, k + 1, Len(t))

RECURSIVE sorted_by_task_count(_)
sorted_by_task_count(s) ==
    IF s = <<>> THEN <<>>
    ELSE insert_by_task_count(s[Len(s)], sorted_by_task_count(SubSeq(s, 1, Len(s) - 1)))

instance_item(ci) ==
    [container_instance_id |-> ci,
     az |-> get_instance_az(ci),
     task_count |-> get_instance_task_count(ci)]

instance_items(cluster_instance_list) ==
    [k \in 1..Len(cluster_instance_list) |-> instance_item(cluster_instance_list[k])]

\* (mutant) the listing is returned as listed, not sorted
unsorted_instance_list_with_info == instance_items(get_instances_in_cluster("ACTIVE"))

\* (mutant) the ranked listing is not filtered by status
sorted_instance_list_of_any_status ==
    sorted_by_task_count(instance_items(get_instances_in_cluster("ANY")))

\* (mutant) the ranked listing leaves out the hosts that a run which has not
\* drained yet has planned
RECURSIVE without_planned(_, _)
without_planned(list, planned) ==
    IF list = <<>> THEN <<>>
    ELSE IF Head(list) \in planned THEN without_planned(Tail(list), planned)
    ELSE <<Head(list)>> \o without_planned(Tail(list), planned)

sorted_instance_list_not_planned ==
    sorted_by_task_count(instance_items(
        without_planned(get_instances_in_cluster("ACTIVE"),
                        IF suspended.pc = "none" THEN {}
                        ELSE Range(suspended.terminate_list))))

\* _get_sorted_instance_list_with_info: the ACTIVE instances, least loaded first
get_sorted_instance_list_with_info ==
    sorted_by_task_count(instance_items(get_instances_in_cluster("ACTIVE")))

\* _get_instances_in_least_loaded_order (polling variant): every listed
\* instance, least loaded first; the zone is not looked up
get_instances_in_least_loaded_order ==
    sorted_by_task_count(instance_items(get_instances_in_cluster("ANY")))

container_instance_list == 
    [k \in 1..Len(ordered_instances) |-> ordered_instances[k].container_instance_id]

\* _get_autoscaling_group_name / _get_autoscaling_group_min_size, or the default 1
min_cluster_size == IF asg.tag THEN asg.MinSize ELSE 1

\* What the lookups behind the minimum size may answer: both as expected; a
\* describe_instances response without the 'Reservations' or 'Instances' key,
\* with an empty 'Reservations' list, with an instance that carries no 'Tags'
\* key, or a ClientError; and, when the instance names a scaling group, a
\* describe_auto_scaling_groups response without the 'AutoScalingGroups' key,
\* with an empty list of groups, or a ClientError.
FloorResponses ==
    {"ok"}
    \cup (IF faults = 0 THEN {}
          ELSE {"no_instance_data", "no_reservations", "no_tags", "describe_instances_error"}
               \cup (IF asg.tag
                     THEN {"no_groups_key", "no_group", "describe_groups_error"}
                     ELSE {}))

\* _get_autoscaling_group_name: the group's name, None, or the exception that
\* leaves it.  Only the search for the tag is inside a try.
get_autoscaling_group_name(resp) ==
    CASE resp = "describe_instances_error" -> "ClientError"
      [] resp = "no_reservations" -> "IndexError"
      [] resp = "no_tags" -> "KeyError"
      [] resp = "no_instance_data" -> "None"
      [] OTHER -> IF asg.tag THEN "name" ELSE "None"

\* int(_get_autoscaling_group_min_size(asg_name)): no try; None when the
\* response has no 'AutoScalingGroups' key, and int(None) is a TypeError
get_autoscaling_group_min_size(resp) ==
    CASE resp = "describe_groups_error" -> [raised |-> "ClientError", size |-> 0]
      [] resp = "no_group" -> [raised |-> "IndexError", size |-> 0]
      [] resp = "no_groups_key" -> [raised |-> "TypeError", size |-> 0]
      [] OTHER -> [raised |-> "no", size |-> min_cluster_size]

\* (mutant) no default: without a group name the minimum is 0
resolved_min_size_without_default(resp) ==
    LET asg_name == get_autoscaling_group_name(resp)
    IN  IF asg_name \in {"ClientError", "IndexError", "KeyError"}
        THEN [raised |-> asg_name, size |-> 0]
        ELSE IF asg_name = "None" THEN [raised |-> "no", size |-> 0]
        ELSE get_autoscaling_group_min_size(resp)

\* the minimum cluster size as scale_down_ecs_cluster resolves it: the
\* group's, or the default 1 when no group name was found
resolved_min_cluster_size(resp) ==
    LET asg_name == get_autoscaling_group_name(resp)
    IN  IF asg_name \in {"ClientError", "IndexError", "KeyError"}
        THEN [raised |-> asg_name, size |-> 0]
        ELSE IF asg_name = "None" THEN [raised |-> "no", size |-> 1]
        ELSE get_autoscaling_group_min_size(resp)

\* (mutant) the count is not recalculated against the minimum size
unclamped_count(instance_count, count, min_size) == count

\* the recalculated decrease_count
clamped_count(instance_count, count, min_size) ==
    IF instance_count - count < min_size THEN instance_count - min_size ELSE count

-----------------------------------------------------------------------------
(* Terminability. *)

\* Python's `e in group` on strings: e occurs in group as a substring
IsSubstring(e, group) ==
    \E i \in 0..(Len(group) - Len(e)) : SubSeq(group, i + 1, i + Len(e)) = e

\* the tasks that the inner loop of _can_be_terminated leaves in running_tasks:
\* those whose group contains no entry of the ignore list
RECURSIVE unmatched_tasks(_, _)
unmatched_tasks(running_tasks, ignore) ==
    IF running_tasks = <<>> THEN <<>>
    ELSE (IF \E k \in 1..Len(ignore) : IsSubstring(ignore[k], Head(running_tasks))
          THEN <<>> ELSE <<Head(running_tasks)>>)
         \o unmatched_tasks(Tail(running_tasks), ignore)

\* _can_be_terminated of the zone-balanced variants.  The function ends with
\* `return True`, with `return False`, by falling off its end ("None") or, in
\* the command-line variant called with ignore_list=None, in len(None).
can_be_terminated(ci, ignore_list) ==
    LET task_count == get_instance_task_count(ci)
        ignore == IF ignore_list.none THEN <<>> ELSE ignore_list.items
    IN  IF task_count = 0 THEN "True"
        ELSE IF ignore_list.none /\ args.variant = "ecs" THEN "TypeError"
        ELSE IF task_count <= Len(ignore)
             THEN LET task_list == get_instance_tasks(ci)
                  IN  IF task_list.raised THEN "TypeError"
                      ELSE IF Len(task_list.taskArns) > Len(ignore) THEN "False"
                      ELSE IF Len(unmatched_tasks(task_list.taskArns, ignore)) = 0
                           THEN "True" ELSE "None"
             ELSE "False"

\* 'LogspoutTask', the group name the polling variant looks for, spelled in
\* the model's alphabet
LogspoutTask == <<"a", "b">>

\* _can_be_terminated of the polling variant: no task, or only logspout
poll_can_be_terminated(ci) ==
    LET task_count == get_instance_task_count(ci)
    IN  IF task_count = 0 THEN "True"
        ELSE IF task_count = 1
             THEN LET task_list == get_instance_tasks(ci)
                  IN  IF task_list.raised THEN "TypeError"
                      ELSE IF Len(task_list.taskArns) > 1 THEN "False"
                      ELSE IF IsSubstring(LogspoutTask, task_list.taskArns[1])
                           THEN "True" ELSE "None"
             ELSE "False"

\* `if _can_be_terminated(...)`: Python's truth value of what it returned
Truthy(r) == r = "True"


-----------------------------------------------------------------------------
(* The mutating calls. *)

\* What update_container_instances_state may answer for a host list: success,
\* and, while the environment may still fail, each non-success shape.
DrainResponses(container_instance_id_list) ==
    {[kind |-> "ok", failures |-> {}]}
    \cup (IF faults = 0 THEN {}
          ELSE {[kind |-> k, failures |-> {}] :
                    k \in {"no_metadata", "no_status", "bad_status", "ClientError"}}
               \cup {[kind |-> "failures", failures |-> F] :
                    F \in (SUBSET Range(container_instance_id_list)) \ {{}}})

\* the instances an update_container_instances_state call puts into DRAINING
drained_by(container_instance_id_list, resp) ==
    IF resp.kind = "ok" THEN Range(container_instance_id_list)
    ELSE IF resp.kind = "failures"
         THEN Range(container_instance_id_list) \ resp.failures
         ELSE {}

\* the logging.error records of _start_draining_instances, by kind of response
drain_errors(resp) == IF resp.kind = "ok" THEN {} ELSE {resp.kind}

\* (mutant) the instances are drained one call each
start_draining_one_by_one(container_instance_id_list, resp) ==
    [calls |-> [k \in 1..Len(container_instance_id_list) |->
                   <<container_instance_id_list[k]>>],
     drained |-> IF args.dry_run THEN {}
                 ELSE drained_by(container_instance_id_list, resp),
     ret |-> "True",
     errors |-> drain_errors(resp)]

\* _start_draining_instances of the zone-balanced variants: the calls issued,
\* the instances drained, and what the function returns (None in a dry run
\* and after a ClientError, which it catches)
start_draining_instances(container_instance_id_list, resp) ==
    IF args.dry_run
    THEN [calls |-> <<>>, drained |-> {}, ret |-> "None", errors |-> {}]
    ELSE [calls |-> <<container_instance_id_list>>,
          drained |-> drained_by(container_instance_id_list, resp),
          ret |-> CASE resp.kind = "ok" -> "True"
                    [] resp.kind = "ClientError" -> "None"
                    [] OTHER -> "False",
          errors |-> drain_errors(resp)]

\* _start_draining_instances of the polling variant: no try, so a ClientError
\* leaves the function as an exception
poll_start_draining_instances(container_instance_id_list, resp) ==
    IF args.dry_run
    THEN [calls |-> <<>>, drained |-> {}, ret |-> "None", errors |-> {}]
    ELSE [calls |-> <<container_instance_id_list>>,
          drained |-> drained_by(container_instance_id_list, resp),
          ret |-> CASE resp.kind = "ok" -> "True"
                    [] resp.kind = "ClientError" -> "ClientError"
                    [] OTHER -> "False",
          errors |-> IF resp.kind = "ClientError" THEN {} ELSE drain_errors(resp)]

\* What the two backing calls of a termination may do: both succeed, the
\* status re-read raises a ClientError, or the terminate call raises one.
TerminateResponses ==
    {"ok"} \cup (IF faults = 0 THEN {} ELSE {"describe_error", "terminate_error"})

\* (mutant) an instance that is not DRAINING is not terminated
termination_calls_draining_only(ci, resp) ==
    <<[call |-> "describe_container_instances", containerInstances |-> <<ci>>]>>
    \o (IF resp # "describe_error" /\ ~args.dry_run /\ hosts[ci].status = "DRAINING"
        THEN <<[call |-> "terminate_instance_in_auto_scaling_group",
                InstanceId |-> ci, ShouldDecrementDesiredCapacity |-> TRUE]>>
        ELSE <<>>)

\* The backing calls of _terminate_and_remove_from_autoscaling_group, the same
\* in every variant: describe_container_instances for the instance, then,
\* when that returned and the run is not a dry run,
\* terminate_instance_in_auto_scaling_group for its EC2 instance.  The status
\* read is only logged.
termination_calls(ci, resp) ==
    <<[call |-> "describe_container_instances", containerInstances |-> <<ci>>]>>
    \o (IF resp # "describe_error" /\ ~args.dry_run
        THEN <<[call |-> "terminate_instance_in_auto_scaling_group",
                InstanceId |-> ci, ShouldDecrementDesiredCapacity |-> TRUE]>>
        ELSE <<>>)

\* the instances the terminate calls among `calls` name
RECURSIVE instances_terminated(_)
instances_terminated(calls) ==
    IF calls = <<>> THEN <<>>
    ELSE (IF Head(calls).call = "terminate_instance_in_auto_scaling_group"
          THEN <<Head(calls).InstanceId>> ELSE <<>>) \o instances_terminated(Tail(calls))

\* _terminate_and_remove_from_autoscaling_group of the zone-balanced variants.
\* result starts as None: a ClientError of the re-read reaches `result += ...`
\* with result still None (TypeError); one of the terminate call is caught.
terminate_and_remove_from_autoscaling_group(ci, resp) ==
    [calls |-> instances_terminated(termination_calls(ci, resp)),
     gone |-> IF resp = "ok" /\ ~args.dry_run THEN {ci} ELSE {},
     raised |-> IF resp = "describe_error" THEN "TypeError" ELSE "no"]

\* _terminate_and_remove_from_autoscaling_group of the polling variant: no try
poll_terminate_and_remove_from_autoscaling_group(ci, resp) ==
    [calls |-> instances_terminated(termination_calls(ci, resp)),
     gone |-> IF resp = "ok" /\ ~args.dry_run THEN {ci} ELSE {},
     raised |-> IF resp = "ok" \/ (resp = "terminate_error" /\ args.dry_run)
                THEN "no" ELSE "ClientError"]

\* the cluster after the instances of `drained` went DRAINING and those of `gone`
\* were terminated
hosts_after(drained, gone) ==
    [i \in 1..Len(hosts) |->
        IF i \in gone THEN [hosts[i] EXCEPT !.status = "GONE"]
        ELSE IF i \in drained /\ hosts[i].status = "ACTIVE"
             THEN [hosts[i] EXCEPT !.status = "DRAINING"]
             ELSE hosts[i]]

\* (mutant) the removal does not look at the DRAINING listing
remove_container_instance_unchecked(ci, resp) ==
    LET nothing == [ret |-> "False", calls |-> <<>>, gone |-> {}, errors |-> {},
                    terminating |-> FALSE]
    IN  IF args.dry_run THEN [nothing EXCEPT !.ret = "True"]
        ELSE IF ci = 0 THEN nothing
        ELSE IF Truthy(can_be_terminated(ci, args.ignore_list))
             THEN LET t == terminate_and_remove_from_autoscaling_group(ci, resp)
                  IN  [ret |-> IF t.raised = "no" THEN "True" ELSE t.raised,
                       calls |-> t.calls, gone |-> t.gone, errors |-> {},
                       terminating |-> TRUE]
             ELSE nothing

\* remove_container_instance_from_ecs_cluster: what it returns (or the exception
\* that leaves it), the terminate calls it issued, the instances it
\* terminated, the errors it logged (its own, and the ClientError the
\* termination caught), and whether it went as far as the termination
remove_container_instance_from_ecs_cluster(ci, resp) ==
    LET nothing == [ret |-> "False", calls |-> <<>>, gone |-> {}, errors |-> {},
                    terminating |-> FALSE]
    IN  IF args.dry_run THEN [nothing EXCEPT !.ret = "True"]
        ELSE IF ci \notin Range(get_instances_in_cluster("DRAINING"))
             THEN [nothing EXCEPT !.errors = {"not_draining"}]
        ELSE LET can == can_be_terminated(ci, args.ignore_list)
             IN  IF can = "TypeError" THEN [nothing EXCEPT !.ret = "TypeError"]
                 ELSE IF Truthy(can)
                      THEN LET t == terminate_and_remove_from_autoscaling_group(ci, resp)
                           IN  [ret |-> IF t.raised = "no" THEN "True" ELSE t.raised,
                                calls |-> t.calls, gone |-> t.gone,
                                errors |-> IF resp = "terminate_error"
                                           THEN {"terminate_error"} ELSE {},
                                terminating |-> TRUE]
                      ELSE nothing

\* an exception leaves the operation
Raised(r) == r \in {"TypeError", "ClientError", "IndexError", "KeyError",
                    "ParamValidationError"}


-----------------------------------------------------------------------------
(* scale_down_ecs_cluster of the zone-balanced variants, step by step. *)

ZoneBalanced == args.variant \in {"ecs", "lambda"}

\* the operation ends: it returned r, or the exception r left it
Ends(r, logged) ==
    /\ ret' = r
    /\ errors' = errors \cup logged
    /\ pc' = "done"

\* the ranked listing; an empty one aborts
ScaleDownRank ==
    /\ pc = "scale_down"
    /\ ZoneBalanced
    /\ ordered_instances' = get_sorted_instance_list_with_info
    /\ IF Len(ordered_instances') <= 0
       THEN Ends("False", {"no_instances"})
       ELSE pc' = "min_size" /\ UNCHANGED <<ret, errors>>
    /\ UNCHANGED <<suspended, runs, termination, listed, args, draining_instances,
                   container_instance_id,
                   hosts, asg, faults, clock, sweeps, decrease_count, azs, az_names,
                   terminate_list, x, idx, drain_calls, term_calls>>

\* the scaling group's minimum size, the floor check and the recalculated count
ScaleDownFloor ==
    /\ pc = "min_size"
    /\ ZoneBalanced
    /\ \E resp \in FloorResponses :
       LET instance_count == Len(container_instance_list)
           min_size == resolved_min_cluster_size(resp)
       IN  /\ faults' = IF resp = "ok" THEN faults ELSE faults - 1
           /\ IF min_size.raised # "no"
              THEN Ends(min_size.raised, {}) /\ UNCHANGED decrease_count
              ELSE IF instance_count <= min_size.size
              THEN Ends("False", {"at_min_size"}) /\ UNCHANGED decrease_count
              ELSE /\ decrease_count' =
                          clamped_count(instance_count, decrease_count, min_size.size)
                   /\ IF decrease_count' <= 0
                      THEN Ends("False", {"not_enough"})
                      ELSE pc' = "zones" /\ UNCHANGED <<ret, errors>>
    /\ UNCHANGED <<suspended, runs, termination, listed, args, draining_instances,
                   container_instance_id,
                   hosts, asg, clock, sweeps, ordered_instances, azs, az_names,
                   terminate_list, x, idx, drain_calls, term_calls>>

\* (mutant) the container instances of zone z, the ranked order reversed
RECURSIVE instances_in_az_reversed(_, _)
instances_in_az_reversed(z, instances) ==
    IF instances = <<>> THEN <<>>
    ELSE instances_in_az_reversed(z, Tail(instances))
         \o (IF Head(instances).az = z
             THEN <<Head(instances).container_instance_id>> ELSE <<>>)

\* the container instances of zone z, in ranked order
RECURSIVE instances_in_az(_, _)
instances_in_az(z, instances) ==
    IF instances = <<>> THEN <<>>
    ELSE (IF Head(instances).az = z
          THEN <<Head(instances).container_instance_id>> ELSE <<>>)
         \o instances_in_az(z, Tail(instances))

\* the dict azs: each zone of the ranked listing with its instances
az_dict(instances) ==
    [z \in {instances[k].az : k \in 1..Len(instances)} |-> instances_in_az(z, instances)]

\* the zones in the order of their first instance in the ranked listing
RECURSIVE first_seen_order(_)
first_seen_order(instances) ==
    IF instances = <<>> THEN <<>>
    ELSE LET before == first_seen_order(SubSeq(instances, 1, Len(instances) - 1))
             z == instances[Len(instances)].az
         IN  IF z \in Range(before) THEN before ELSE Append(before, z)

\* `for az in azs`: the orders in which the dict may enumerate its keys.  A
\* Python 3 dict enumerates in insertion order; a Python 2 dict in an order of
\* its own.
az_enumerations(instances) ==
    IF args.py = 3 THEN {first_seen_order(instances)}
    ELSE {s \in [1..Cardinality(DOMAIN az_dict(instances)) -> DOMAIN az_dict(instances)] :
             \A i, j \in DOMAIN s : i # j => s[i] # s[j]}

\* (mutant) every topology but two zones is treated as a single zone
topology_unchecked(zone_count) == IF zone_count = 2 THEN "two" ELSE "one"

\* `if len(azs) == 1 ... elif len(azs) == 2 ... else`
topology(zone_count) ==
    IF zone_count = 1 THEN "one" ELSE IF zone_count = 2 THEN "two" ELSE "unsupported"

\* the partition by zone; one zone: the plan is the head of the ranked listing;
\* two zones: the selection loop follows; more: not handled
ScaleDownZones ==
    /\ pc = "zones"
    /\ ZoneBalanced
    /\ azs' = az_dict(ordered_instances)
    /\ \E names \in az_enumerations(ordered_instances) :
          IF topology(Len(names)) = "one"
          THEN /\ terminate_list' = Prefix(container_instance_list, decrease_count)
               /\ pc' = "drain"
               /\ UNCHANGED <<az_names, ret, errors>>
          ELSE IF topology(Len(names)) = "two"
               THEN /\ az_names' = names
                    /\ pc' = "select"
                    /\ UNCHANGED <<terminate_list, ret, errors>>
               ELSE /\ Ends(IF args.variant = "lambda" THEN "None" ELSE "exit1",
                            {"too_many_azs"})
                    /\ UNCHANGED <<az_names, terminate_list>>
    /\ UNCHANGED <<suspended, runs, termination, listed, args, draining_instances,
                   container_instance_id,
                   hosts, asg, faults, clock, sweeps, ordered_instances,
                   decrease_count, x, idx, drain_calls, term_calls>>

\* (mutant) the loop always takes from the first zone
first_zone_always(zone_lists, names) == names[1]

\* (mutant) the loop always takes from the second zone
second_zone_always(zone_lists, names) == names[2]

\* (mutant) the loop takes from the smaller zone, the first on a tie
smaller_zone(zone_lists, names) ==
    IF Len(zone_lists[names[1]]) > Len(zone_lists[names[2]]) THEN names[2] ELSE names[1]

\* (mutant) on a tie the loop takes from the second zone
tie_to_second_zone(zone_lists, names) ==
    IF Len(zone_lists[names[1]]) > Len(zone_lists[names[2]]) THEN names[1] ELSE names[2]

\* the zone one iteration of the two-zone loop takes from
zone_to_take_from(zone_lists, names) ==
    IF \/ Len(zone_lists[names[1]]) > Len(zone_lists[names[2]])
       \/ Len(zone_lists[names[1]]) = Len(zone_lists[names[2]])
    THEN names[1] ELSE names[2]

\* one iteration of `for x in range(0, decrease_count)`: pop(0) from the zone
\* chosen (an IndexError if its list is empty)
ScaleDownSelect ==
    /\ pc = "select"
    /\ ZoneBalanced
    /\ LET z == zone_to_take_from(azs, az_names)
       IN  IF azs[z] = <<>>
           THEN Ends("IndexError", {}) /\ UNCHANGED <<azs, terminate_list, x>>
           ELSE /\ terminate_list' = Append(terminate_list, Head(azs[z]))
                /\ azs' = [azs EXCEPT ![z] = Tail(@)]
                /\ x' = x + 1
                /\ pc' = IF x' = decrease_count THEN "drain" ELSE "select"
                /\ UNCHANGED <<ret, errors>>
    /\ UNCHANGED <<suspended, runs, termination, listed, args, draining_instances,
                   container_instance_id,
                   hosts, asg, faults, clock, sweeps, ordered_instances, decrease_count,
                   az_names, idx, drain_calls, term_calls>>

\* the bulk drain of the plan; what it returns is not looked at
ScaleDownDrain ==
    /\ pc = "drain"
    /\ ZoneBalanced
    /\ \E resp \in DrainResponses(terminate_list) :
          LET d == start_draining_instances(terminate_list, resp)
          IN  /\ drain_calls' = drain_calls \o d.calls
              /\ hosts' = hosts_after(d.drained, {})
              /\ faults' = IF resp.kind = "ok" THEN faults ELSE faults - 1
              /\ errors' = errors \cup d.errors
    /\ pc' = "remove"
    /\ UNCHANGED <<suspended, runs, termination, listed, args, draining_instances,
                   container_instance_id,
                   asg, clock, sweeps, ordered_instances, decrease_count, azs, az_names,
                   terminate_list, x, idx, term_calls, ret>>

\* one iteration of `for inst in terminate_list[:]`
ScaleDownRemove ==
    /\ pc = "remove"
    /\ ZoneBalanced
    /\ idx < Len(terminate_list)
    /\ \E resp \in TerminateResponses :
          LET r == remove_container_instance_from_ecs_cluster(terminate_list[idx + 1], resp)
          IN  /\ term_calls' = term_calls \o r.calls
              /\ hosts' = hosts_after({}, r.gone)
              /\ resp # "ok" => r.terminating
              /\ faults' = IF resp = "ok" THEN faults ELSE faults - 1
              /\ IF Raised(r.ret)
                 THEN Ends(r.ret, r.errors) /\ UNCHANGED idx
                 ELSE /\ idx' = idx + 1
                      /\ errors' = errors \cup r.errors
                      /\ UNCHANGED <<pc, ret>>
    /\ UNCHANGED <<suspended, runs, termination, listed, args, draining_instances,
                   container_instance_id,
                   asg, clock, sweeps, ordered_instances, decrease_count, azs, az_names,
                   terminate_list, x, drain_calls>>

\* the function falls off its end
ScaleDownReturn ==
    /\ pc = "remove"
    /\ ZoneBalanced
    /\ idx = Len(terminate_list)
    /\ Ends("None", {})
    /\ UNCHANGED <<suspended, runs, termination, listed, args, draining_instances,
                   container_instance_id,
                   hosts, asg, faults, clock, sweeps, ordered_instances, decrease_count, azs,
                   az_names, terminate_list, x, idx, drain_calls, term_calls>>


-----------------------------------------------------------------------------
(* scale_down_ecs_cluster of the polling variant. *)

Polling == args.variant = "poll"

\* the pre-flight check for DRAINING instances, then the ranked listing
PollRank ==
    /\ pc = "scale_down"
    /\ Polling
    /\ IF Len(get_instances_in_cluster("DRAINING")) > 0
       THEN Ends("False", {"draining"}) /\ UNCHANGED ordered_instances
       ELSE /\ ordered_instances' = get_instances_in_least_loaded_order
            /\ IF Len(ordered_instances') <= 0
               THEN Ends("False", {"no_instances"})
               ELSE pc' = "min_size" /\ UNCHANGED <<ret, errors>>
    /\ UNCHANGED <<suspended, runs, termination, listed, args, draining_instances,
                   container_instance_id,
                   hosts, asg, faults, clock, sweeps, decrease_count, azs, az_names,
                   terminate_list, x, idx, drain_calls, term_calls>>

\* the minimum size, the floor check, the recalculated count and the plan:
\* the head of the ranked listing
PollFloor ==
    /\ pc = "min_size"
    /\ Polling
    /\ \E resp \in FloorResponses :
       LET instance_count == Len(container_instance_list)
           min_size == resolved_min_cluster_size(resp)
       IN  /\ faults' = IF resp = "ok" THEN faults ELSE faults - 1
           /\ IF min_size.raised # "no"
              THEN Ends(min_size.raised, {}) /\ UNCHANGED <<decrease_count, terminate_list>>
              ELSE IF instance_count <= min_size.size
              THEN Ends("False", {"at_min_size"})
                   /\ UNCHANGED <<decrease_count, terminate_list>>
              ELSE /\ decrease_count' =
                          clamped_count(instance_count, decrease_count, min_size.size)
                   /\ IF decrease_count' > 0
                      THEN /\ terminate_list' =
                                  Prefix(container_instance_list, decrease_count')
                           /\ pc' = "drain"
                           /\ UNCHANGED <<ret, errors>>
                      ELSE Ends("False", {"not_enough"}) /\ UNCHANGED terminate_list
    /\ UNCHANGED <<suspended, runs, termination, listed, args, draining_instances,
                   container_instance_id,
                   hosts, asg, clock, sweeps, ordered_instances, azs, az_names,
                   x, idx, drain_calls, term_calls>>

\* the bulk drain of the plan, and the start time of the wait
PollDrain ==
    /\ pc = "drain"
    /\ Polling
    /\ \E resp \in DrainResponses(terminate_list) :
          LET d == poll_start_draining_instances(terminate_list, resp)
          IN  /\ drain_calls' = drain_calls \o d.calls
              /\ hosts' = hosts_after(d.drained, {})
              /\ faults' = IF resp.kind = "ok" THEN faults ELSE faults - 1
              /\ IF Raised(d.ret)
                 THEN Ends(d.ret, {})
                 ELSE pc' = "poll" /\ errors' = errors \cup d.errors /\ UNCHANGED ret
    /\ clock' = 0
    /\ UNCHANGED <<suspended, runs, termination, listed, args, draining_instances,
                   container_instance_id,
                   asg, sweeps, ordered_instances, decrease_count, azs, az_names,
                   terminate_list, x, idx, term_calls>>

\* (mutant) the instance is not removed from the list
list_kept(list, inst) == list

\* terminate_list.remove(inst)
list_remove(list, inst) ==
    LET k == CHOOSE j \in 1..Len(list) :
                 list[j] = inst /\ \A i \in 1..(j - 1) : list[i] # inst
    IN  SubSeq(list, 1, k - 1) \o SubSeq(list, k + 1, Len(list))

\* One iteration of `for inst in terminate_list[:]`.  The loop walks a copy and
\* removes from the list itself: idx counts the instances walked and left in
\* the list, so terminate_list[idx + 1] is the copy's next instance.
PollCheck ==
    /\ pc = "poll"
    /\ Polling
    /\ idx < Len(terminate_list)
    /\ LET inst == terminate_list[idx + 1]
           can == poll_can_be_terminated(inst)
       IN  IF Raised(can)
           THEN /\ Ends(can, {})
                /\ UNCHANGED <<hosts, faults, terminate_list, idx, term_calls>>
           ELSE IF Truthy(can)
                THEN \E resp \in TerminateResponses :
                        LET t == poll_terminate_and_remove_from_autoscaling_group(inst, resp)
                        IN  /\ term_calls' = term_calls \o t.calls
                            /\ hosts' = hosts_after({}, t.gone)
                            /\ faults' = IF resp = "ok" THEN faults ELSE faults - 1
                            /\ IF t.raised # "no"
                               THEN Ends(t.raised, {}) /\ UNCHANGED terminate_list
                               ELSE /\ terminate_list' = list_remove(terminate_list, inst)
                                    /\ UNCHANGED <<pc, ret, errors>>
                            /\ UNCHANGED idx
                ELSE /\ idx' = idx + 1
                     /\ UNCHANGED <<hosts, faults, terminate_list, term_calls, pc,
                                    ret, errors>>
    /\ UNCHANGED <<suspended, runs, termination, listed, args, draining_instances,
                   container_instance_id,
                   asg, clock, sweeps, ordered_instances, decrease_count, azs,
                   az_names, x, drain_calls>>

\* `MAX_WAIT > 0`.  MAX_WAIT is the int 0, or args.max_wait as argparse gave it:
\* a str, the option having no type.  Python 2 orders every int before every
\* str; Python 3 raises a TypeError.
max_wait_is_set ==
    IF args.MAX_WAIT.type = "int"
    THEN (IF args.MAX_WAIT.val > 0 THEN "True" ELSE "False")
    ELSE IF args.py = 3 THEN "TypeError" ELSE "True"

\* `running_time_hours > MAX_WAIT`
max_wait_is_hit(running_time_hours) ==
    IF args.MAX_WAIT.type = "int"
    THEN (IF running_time_hours > args.MAX_WAIT.val THEN "True" ELSE "False")
    ELSE IF args.py = 3 THEN "TypeError" ELSE "False"

\* int(running_time_seconds // 3600)
running_time_hours == clock \div SecondsPerHour

\* the hours --max-wait is given in a whole run
MaxWaitHours == 2

\* The clock is followed up to the first whole hour that exceeds every maximum
\* wait: from there on no comparison of the loop changes any more.
ClockCap == (MaxWaitHours + 1) * SecondsPerHour

\* What a sweep's calls and its sleep take: the sleep, or an hour when the
\* calls were slow.  The sweeps after the MaxSweeps-th are followed an hour
\* at a time and are no longer counted.
SleepSteps == IF sweeps < MaxSweeps THEN {SleepSeconds, SecondsPerHour} ELSE {SecondsPerHour}

\* time.sleep(60), and the loop goes round again.  Beyond the cap the clock
\* only tells that time passes: it goes between the cap and one sleep more,
\* within the same whole hour.
Sleeps ==
    /\ \E d \in SleepSteps :
          clock' = IF clock + d <= ClockCap THEN clock + d
                   ELSE IF clock = ClockCap THEN ClockCap + SleepSeconds
                   ELSE ClockCap
    /\ sweeps' = Min(sweeps + 1, MaxSweeps)

\* the escalation: every instance still pending is terminated, in order; the
\* first exception leaves the loop
RECURSIVE poll_terminate_all(_, _)
poll_terminate_all(list, resps) ==
    IF list = <<>> THEN [calls |-> <<>>, gone |-> {}, raised |-> "no"]
    ELSE LET t == poll_terminate_and_remove_from_autoscaling_group(Head(list), Head(resps))
         IN  IF t.raised # "no" THEN t
             ELSE LET rest == poll_terminate_all(Tail(list), Tail(resps))
                  IN  [calls |-> t.calls \o rest.calls,
                       gone |-> t.gone \cup rest.gone,
                       raised |-> rest.raised]

\* The end of a sweep: the list is empty (complete), the MAX_WAIT check with its
\* escalation, and the sleep before the next sweep.
PollSweepEnd ==
    /\ pc = "poll"
    /\ Polling
    /\ idx = Len(terminate_list)
    /\ LET complete == Len(terminate_list) = 0
           is_set == max_wait_is_set
           is_hit == IF is_set = "True" THEN max_wait_is_hit(running_time_hours)
                     ELSE "False"
       IN  IF Raised(is_set) \/ Raised(is_hit)
           THEN /\ Ends("TypeError", {})
                /\ UNCHANGED <<hosts, faults, clock, sweeps, terminate_list, idx, term_calls>>
           ELSE IF is_hit = "True"
           THEN \E resps \in [1..Len(terminate_list) -> TerminateResponses] :
                   LET t == poll_terminate_all(terminate_list, resps)
                   IN  /\ term_calls' = term_calls \o t.calls
                       /\ hosts' = hosts_after({}, t.gone)
                       /\ terminate_list' = IF t.raised = "no" THEN <<>> ELSE terminate_list
                       /\ Ends(IF t.raised = "no" THEN "True" ELSE t.raised, {})
                       /\ UNCHANGED <<faults, clock, sweeps, idx>>
           ELSE IF complete
           THEN /\ Ends("True", {})
                /\ UNCHANGED <<hosts, faults, clock, sweeps, terminate_list, idx, term_calls>>
           ELSE /\ Sleeps
                /\ idx' = 0
                /\ UNCHANGED <<hosts, faults, terminate_list, term_calls, pc, ret, errors>>
    /\ UNCHANGED <<suspended, runs, termination, listed, args, draining_instances,
                   container_instance_id,
                   asg, ordered_instances, decrease_count, azs, az_names, x,
                   drain_calls>>

\* The environment: a task of an instance the run waits for stops.
TaskStops ==
    /\ pc \in {"poll", "poll_one"}
    /\ \E i \in (IF pc = "poll" THEN Range(terminate_list) ELSE {container_instance_id}) :
          /\ hosts[i].status # "GONE"
          /\ hosts[i].tasks # <<>>
          /\ \E k \in 1..Len(hosts[i].tasks) :
                hosts' = [hosts EXCEPT ![i].tasks =
                             SubSeq(@, 1, k - 1) \o SubSeq(@, k + 1, Len(@))]
    /\ UNCHANGED <<suspended, runs, termination, listed, args,
                   draining_instances, container_instance_id, asg, faults, clock,
                   sweeps, pc, ordered_instances, decrease_count, azs, az_names,
                   terminate_list, x, idx, drain_calls, term_calls, errors, ret>>


-----------------------------------------------------------------------------
(* Inputs. *)

\* the tuples over S of length lo..hi
SeqsOf(S, lo, hi) == UNION {[1..n -> S] : n \in lo..hi}

\* Zone labels in order of first use: renaming zones changes nothing the code
\* reads, so one labelling per partition of the listing is drawn.
FirstUseOrder(f) ==
    \A i \in DOMAIN f : \A z \in 1..(f[i] - 1) : \E j \in 1..(i - 1) : f[j] = z

ZoneListings(n) == {f \in [1..n -> Zones] : FirstUseOrder(f)}

\* a host running `load` tasks of group g
HostRunning(zone, load, g) ==
    [az |-> zone, status |-> "ACTIVE", tasks |-> [k \in 1..load |-> g]]

OtherGroup == <<"a">>

\* an ignore list as the caller passes it: None, or a list of entries
NoIgnoreList == [none |-> TRUE, items |-> <<>>]

IgnoreList(items) == [none |-> FALSE, items |-> items]

\* MAX_WAIT: the int 0 when --max-wait is not given, else its str
MaxWaitUnset == [type |-> "int", val |-> 0]

MaxWaitGiven(h) == [type |-> "str", val |-> h]

Interpreters(variant) == IF variant = "lambda" THEN {3} ELSE {2, 3}

ScalingGroups ==
    {[tag |-> FALSE, MinSize |-> 0]} \cup {[tag |-> TRUE, MinSize |-> m] : m \in 0..MaxMinSize}

\* no second run
NoRun == [pc |-> "none"]

\* the state in which the code at `at` is entered: nothing done yet, and f
\* backing calls may fail
EnteredWithFaults(at, a, h, g, f) ==
    /\ args = a
    /\ hosts = h
    /\ asg = g
    /\ faults = f
    /\ suspended = NoRun
    /\ runs = 1
    /\ listed = [result |-> <<>>, queries |-> <<>>]
    /\ termination = [calls |-> <<>>, status |-> "none"]
    /\ clock = 0
    /\ sweeps = 0
    /\ pc = at
    /\ draining_instances = <<>>
    /\ container_instance_id = 0
    /\ ordered_instances = <<>>
    /\ decrease_count = a.count
    /\ azs = <<>>
    /\ az_names = <<>>
    /\ terminate_list = <<>>
    /\ x = 0
    /\ idx = 0
    /\ drain_calls = <<>>
    /\ term_calls = <<>>
    /\ errors = {}
    /\ ret = "running"

\* ... in an environment whose backing calls all succeed
Entered(at, a, h, g) == EnteredWithFaults(at, a, h, g, 0)

\* the state in which scale_down_ecs_cluster(decrease_count=count) is entered
EntersScaleDown(a, h, g) == Entered("scale_down", a, h, g)

SelectArgs(variant, py, count) ==
    [variant |-> variant, py |-> py, count |-> count, dry_run |-> FALSE,
     ignore_list |-> IgnoreList(<< <<"b">> >>), MAX_WAIT |-> MaxWaitUnset,
     instance_ids |-> <<>>, alarm |-> "none"]

\* spec.md, scenario A: five hosts, loads 0..4 (listed in another order), one
\* zone, floor 2, requested 3
ScenarioAHosts ==
    <<HostRunning(1, 2, OtherGroup), HostRunning(1, 0, OtherGroup),
      HostRunning(1, 4, OtherGroup), HostRunning(1, 1, OtherGroup),
      HostRunning(1, 3, OtherGroup)>>

\* spec.md, scenario B: z1 holds loads 0 and 2, z2 loads 1 and 3, floor 1,
\* requested 2
ScenarioBHosts ==
    <<HostRunning(1, 2, OtherGroup), HostRunning(2, 3, OtherGroup),
      HostRunning(2, 1, OtherGroup), HostRunning(1, 0, OtherGroup)>>

\* Selection runs: every cluster of up to MaxHosts ACTIVE hosts with up to
\* MaxLoad tasks each, every floor and count, and the two scenarios of spec.md.
\* The polling variant does not look zones up: its hosts are drawn in one zone.
InitSelect ==
    \/ \E variant \in {"poll", "ecs", "lambda"} :
       \E py \in Interpreters(variant) :
       \E count \in (IF variant = "poll" THEN 0 ELSE 1)..MaxCount :
       \E n \in 0..MaxHosts :
       \E zone \in (IF variant = "poll" THEN {[i \in 1..n |-> 1]} ELSE ZoneListings(n)) :
       \E load \in [1..n -> 0..MaxLoad] :
       \E g \in ScalingGroups :
          EntersScaleDown(SelectArgs(variant, py, count),
                          [i \in 1..n |-> HostRunning(zone[i], load[i], OtherGroup)],
                          g)
    \/ \E variant \in {"ecs", "lambda"} :
          \/ EntersScaleDown(SelectArgs(variant, 3, 3), ScenarioAHosts,
                             [tag |-> TRUE, MinSize |-> 2])
          \/ EntersScaleDown(SelectArgs(variant, 3, 2), ScenarioBHosts,
                             [tag |-> TRUE, MinSize |-> 1])

NextSelect ==
    \/ ScaleDownRank
    \/ ScaleDownFloor
    \/ ScaleDownZones
    \/ ScaleDownSelect
    \/ ScaleDownDrain
    \/ ScaleDownRemove
    \/ ScaleDownReturn
    \/ PollRank
    \/ PollFloor
    \/ PollDrain

SpecSelect == InitSelect /\ [][NextSelect]_vars


-----------------------------------------------------------------------------
(* Selection: the removal plan.  Checked under SpecSelect. *)

\* the load of a host: the tasks running on it
Load(i) == Len(hosts[i].tasks)

\* i is ranked before j: less loaded, or as loaded and listed earlier
RankedBefore(i, j) == Load(i) < Load(j) \/ (Load(i) = Load(j) /\ i < j)

\* the hosts the run listed, and the zones they span
Listed == {ordered_instances[k].container_instance_id : k \in 1..Len(ordered_instances)}

ListedIn(z) == {i \in Listed : hosts[i].az = z}

ZonesSpanned == {hosts[i].az : i \in Listed}

\* the plan is chosen: the run stands before the drain, or is past it
PlanChosen == pc \in {"drain", "remove", "poll"} \/ drain_calls # <<>>

\* the two-zone loop is running or has run
TwoZoneSelection ==
    /\ ZoneBalanced
    /\ Cardinality(ZonesSpanned) = 2
    /\ pc = "select" \/ PlanChosen

NoRepeats(s) == \A i, j \in 1..Len(s) : i # j => s[i] # s[j]

\* C1: the plan that is drained has min(requested, listed - minimum) hosts, a
\* positive number; so it leaves at least the minimum, is no larger than
\* requested, and is exactly listed - minimum when more was requested.
C1_PlanSize ==
    drain_calls # <<>> =>
        LET plan == drain_calls[1]
            n == Len(ordered_instances)
            m == min_cluster_size
            r == args.count
        IN  /\ Min(r, n - m) > 0
            /\ Len(plan) = Min(r, n - m)
            /\ NoRepeats(plan)
            /\ n - Len(plan) >= m
            /\ Len(plan) <= r
            /\ r > n - m => Len(plan) = n - m

\* C1's case: a plan was drained that the minimum size cut short, in each
\* kind of variant
C1_Witness ==
    /\ drain_calls # <<>>
    /\ Len(drain_calls[1]) = 2
    /\ Len(drain_calls[1]) < args.count
    /\ Cardinality(ZonesSpanned) = 2

\* C2: with every listed host in one zone, the plan is the effective count of
\* hosts ranked first, in ranked order; scenario A gives the loads 0, 1, 2.
C2_SingleZonePlan ==
    (PlanChosen /\ Cardinality(ZonesSpanned) = 1) =>
        /\ Len(terminate_list) = Min(args.count, Len(ordered_instances) - min_cluster_size)
        /\ Range(terminate_list) \subseteq Listed
        /\ \A k \in 1..(Len(terminate_list) - 1) :
              RankedBefore(terminate_list[k], terminate_list[k + 1])
        /\ \A i \in Range(terminate_list) : \A j \in Listed \ Range(terminate_list) :
              RankedBefore(i, j)
        /\ (hosts = ScenarioAHosts /\ args.count = 3 /\ min_cluster_size = 2) =>
              [k \in 1..Len(terminate_list) |-> Load(terminate_list[k])] = <<0, 1, 2>>

\* C2's case: scenario A's plan is drained
C2_Witness ==
    /\ [i \in 1..Len(hosts) |-> Len(hosts[i].tasks)] = <<2, 0, 4, 1, 3>>
    /\ drain_calls = <<terminate_list>>
    /\ Len(terminate_list) = 3

\* C3 as spec.md states it: after a two-zone selection the zones' remaining counts
\* differ by no more than their original counts did.
C3_NeverWider ==
    (TwoZoneSelection /\ PlanChosen) =>
        Abs(Len(azs[az_names[1]]) - Len(azs[az_names[2]]))
            <= Abs(Cardinality(ListedIn(az_names[1])) - Cardinality(ListedIn(az_names[2])))

\* C3, amended: ... by no more than their original counts did, or by one when
\* the original counts were equal.
C3_NeverWiderThanOne ==
    (TwoZoneSelection /\ PlanChosen) =>
        Abs(Len(azs[az_names[1]]) - Len(azs[az_names[2]]))
            <= Max(1, Abs(Cardinality(ListedIn(az_names[1]))
                          - Cardinality(ListedIn(az_names[2]))))

\* C3's case: a selection from two zones of equal size that took an odd
\* number of hosts
C3_Witness ==
    /\ TwoZoneSelection /\ PlanChosen
    /\ Cardinality(ListedIn(az_names[1])) = Cardinality(ListedIn(az_names[2]))
    /\ Len(terminate_list) = 1

\* the zone the rule of C4 names for the next pick
ZoneByRule ==
    IF Len(azs[az_names[1]]) >= Len(azs[az_names[2]]) THEN az_names[1] ELSE az_names[2]

\* C4: each pick takes the least loaded remaining host of the first-enumerated
\* zone when the remaining counts are equal and of the strictly larger zone
\* otherwise, so the plan is a function of the ranked input; scenario B's plan
\* holds one host of each zone.
C4_PickRule ==
    /\ [][(pc = "select" /\ azs[ZoneByRule] # <<>>) =>
             /\ terminate_list' = Append(terminate_list, Head(azs[ZoneByRule]))
             /\ hosts[Head(azs[ZoneByRule])].az = ZoneByRule
             /\ \A i \in Range(azs[ZoneByRule]) : RankedBefore(Head(azs[ZoneByRule]), i)
                                                  \/ i = Head(azs[ZoneByRule])
             /\ azs' = [azs EXCEPT ![ZoneByRule] = Tail(@)]]_vars
    /\ []((PlanChosen /\ hosts = ScenarioBHosts /\ args.count = 2 /\ min_cluster_size = 1) =>
             /\ Len(terminate_list) = 2
             /\ {hosts[i].az : i \in Range(terminate_list)} = {1, 2})

\* C4's case: scenario B's selection, past a pick at a tie (from the first
\* zone) and a pick from the then larger second zone
C4_Witness ==
    /\ PlanChosen
    /\ [i \in 1..Len(hosts) |-> Len(hosts[i].tasks)] = <<2, 3, 1, 0>>
    /\ args.count = 2
    /\ x = 2
    /\ "too_many_azs" \notin errors

\* C5: after the k-th pick of a two-zone selection whose zones differed by d,
\* the remaining counts differ by at most max(1, d - k).
C5_Balance ==
    TwoZoneSelection =>
        Abs(Len(azs[az_names[1]]) - Len(azs[az_names[2]]))
            <= Max(1, Abs(Cardinality(ListedIn(az_names[1]))
                          - Cardinality(ListedIn(az_names[2]))) - x)

\* C5's case: two picks from zones that differed by two
C5_Witness ==
    /\ TwoZoneSelection
    /\ Abs(Cardinality(ListedIn(az_names[1])) - Cardinality(ListedIn(az_names[2]))) = 2
    /\ x = 2

\* s lists hosts in ranked order
InRankedOrder(s) == \A k \in 1..(Len(s) - 1) : RankedBefore(s[k], s[k + 1])

\* C6: in a two-zone selection the hosts taken from a zone are ranked before
\* the hosts left in it, and both the taken and the left are in ranked order.
C6_ZonePrefix ==
    TwoZoneSelection =>
        \A z \in ZonesSpanned :
            /\ Range(azs[z]) = ListedIn(z) \ Range(terminate_list)
            /\ InRankedOrder(azs[z])
            /\ \A i \in Range(terminate_list) : \A j \in Range(azs[z]) :
                  hosts[i].az = z => RankedBefore(i, j)
            /\ \A k, l \in 1..Len(terminate_list) :
                  (k < l /\ hosts[terminate_list[k]].az = z /\ hosts[terminate_list[l]].az = z)
                      => RankedBefore(terminate_list[k], terminate_list[l])

\* C6's case: two hosts were taken from one zone and a more loaded one is left
C6_Witness ==
    /\ TwoZoneSelection
    /\ \E z \in ZonesSpanned :
          /\ Cardinality({i \in Range(terminate_list) : hosts[i].az = z}) = 2
          /\ \E j \in Range(azs[z]) : \A i \in Range(terminate_list) : Load(i) < Load(j)

\* how a run that aborts before any mutation reports it: False, or, when the
\* zones are not handled, None (event handler) or exit status 1 (command line),
\* with the error logged
ReportsFailure ==
    /\ ret \in {"False", "None", "exit1"}
    /\ errors \cap {"no_instances", "at_min_size", "not_enough", "too_many_azs"} # {}

-----------------------------------------------------------------------------
(* The terminability check on its own. *)

\* _can_be_terminated called for container instance 1 with the run's ignore
\* list; what it returns, or the exception it ends in, is left in ret
CanBeTerminated ==
    /\ pc = "can_be_terminated"
    /\ ret' = IF Polling THEN poll_can_be_terminated(1)
              ELSE can_be_terminated(1, args.ignore_list)
    /\ pc' = "done"
    /\ UNCHANGED <<suspended, runs, termination, listed, args, draining_instances,
                   container_instance_id,
                   hosts, asg, faults, clock, sweeps, ordered_instances, decrease_count,
                   azs, az_names, terminate_list, x, idx, drain_calls, term_calls, errors>>

\* the groups of the tasks a checked host runs, and the entries of ignore lists
TaskGroups == {<<"a">>, <<"a", "b">>, <<"b", "a">>}

IgnoreEntries == {<<"b">>, <<"a", "b">>}

\* the ignore lists a caller passes: None, or up to a page and one entries
IgnoreLists ==
    {NoIgnoreList} \cup {IgnoreList(items) : items \in SeqsOf(IgnoreEntries, 0, PageSize + 1)}

\* a DRAINING host running up to a page and one tasks, and any ignore list
InitCanTerminate ==
    \E variant \in {"poll", "ecs", "lambda"} :
    \E py \in Interpreters(variant) :
    \E tasks \in SeqsOf(TaskGroups, 0, PageSize + 1) :
    \E il \in IgnoreLists :
        /\ variant = "poll" => il = NoIgnoreList
        /\ Entered("can_be_terminated",
                   [variant |-> variant, py |-> py, count |-> 1, dry_run |-> FALSE,
                    ignore_list |-> il, MAX_WAIT |-> MaxWaitUnset,
                    instance_ids |-> <<>>, alarm |-> "none"],
                   <<[az |-> 1, status |-> "DRAINING", tasks |-> tasks]>>,
                   [tag |-> TRUE, MinSize |-> 0])

NextCanTerminate == CanBeTerminated

SpecCanTerminate == InitCanTerminate /\ [][NextCanTerminate]_vars

\* the ignore set the check works with: the caller's list, or, in the polling
\* variant, the one hard-coded group
IgnoreSet == IF Polling THEN <<LogspoutTask>> ELSE args.ignore_list.items

\* what C8 gives as the condition of terminability, over the host's tasks
TerminableByRule ==
    \/ Len(hosts[1].tasks) = 0
    \/ /\ Len(hosts[1].tasks) <= Len(IgnoreSet)
       /\ \A k \in 1..Len(hosts[1].tasks) :
             \E e \in 1..Len(IgnoreSet) : IsSubstring(IgnoreSet[e], hosts[1].tasks[k])

\* C8: the check of a host against a given ignore list answers true exactly
\* when the host runs no task, or no more tasks than the list has entries and
\* each task's group contains an entry; in every other case it answers false
\* (None, the value of a function that falls off its end, is read as false).
C8_CanTerminate ==
    (pc = "done" /\ (Polling \/ ~args.ignore_list.none)) =>
        IF TerminableByRule THEN ret = "True" ELSE ret \in {"False", "None"}


-----------------------------------------------------------------------------
(* The entry points: lambda_handler and the two __main__ blocks. *)

\* _get_container_instance_id: the container instance whose EC2 instance has
\* the given id, or None (0) when the listing holds none.  The EC2 instance of
\* container instance i has the id i.
get_container_instance_id(instance_id) ==
    IF instance_id \in Range(get_instances_in_cluster("ANY")) THEN instance_id ELSE 0

\* (mutant) the alarm is not looked at
alarm_gate_ignored == FALSE

\* `if alarm_name` and `len(matching_alarms) == 0`: an alarm name was given and
\* describe_alarms finds no alarm of that name in ALARM state
alarm_gate_closed == args.alarm = "not_in_alarm"

\* how the entry point leaves when the gating alarm is not in ALARM state:
\* return (event handler), sys.exit(0) (command line), sys.exit(1) (polling)
alarm_not_in_alarm ==
    CASE args.variant = "lambda" -> "None"
      [] args.variant = "ecs" -> "exit0"
      [] OTHER -> "exit1"

\* The zone-balanced entry point up to its clean-up loop: the listing of the
\* instances in DRAINING state.
MainPreflight ==
    /\ pc = "main"
    /\ ZoneBalanced
    /\ draining_instances' = get_instances_in_cluster("DRAINING")
    /\ idx' = 0
    /\ pc' = "preflight"
    /\ UNCHANGED <<suspended, runs, termination, listed, args,
                   container_instance_id, hosts, asg, faults, clock, sweeps,
                   ordered_instances, decrease_count, azs, az_names, terminate_list, x,
                   drain_calls, term_calls, errors, ret>>

\* one iteration of `for instance in draining_instances`
MainPreflightRemove ==
    /\ pc = "preflight"
    /\ ZoneBalanced
    /\ idx < Len(draining_instances)
    /\ \E resp \in TerminateResponses :
          LET r == remove_container_instance_from_ecs_cluster(draining_instances[idx + 1], resp)
          IN  /\ term_calls' = term_calls \o r.calls
              /\ hosts' = hosts_after({}, r.gone)
              /\ resp # "ok" => r.terminating
              /\ faults' = IF resp = "ok" THEN faults ELSE faults - 1
              /\ IF Raised(r.ret)
                 THEN Ends(r.ret, r.errors) /\ UNCHANGED idx
                 ELSE /\ idx' = idx + 1
                      /\ errors' = errors \cup r.errors
                      /\ UNCHANGED <<pc, ret>>
    /\ UNCHANGED <<suspended, runs, termination, listed, args,
                   draining_instances, container_instance_id, asg, clock, sweeps,
                   ordered_instances, decrease_count, azs, az_names, terminate_list, x,
                   drain_calls>>

\* after the clean-up: the count, the gating alarm, and the choice between
\* removal by instance id and the auto-selected scale-down
MainGate ==
    /\ pc = "preflight"
    /\ ZoneBalanced
    /\ idx = Len(draining_instances)
    /\ IF args.count <= 0
       THEN Ends("None", {})
       ELSE IF alarm_gate_closed
       THEN Ends(alarm_not_in_alarm, {})
       ELSE /\ pc' = IF args.instance_ids # <<>> THEN "by_instance_id" ELSE "scale_down"
            /\ UNCHANGED <<ret, errors>>
    /\ idx' = 0
    /\ UNCHANGED <<suspended, runs, termination, listed, args, draining_instances,
                   container_instance_id, hosts, asg,
                   faults, clock,
                   sweeps, ordered_instances, decrease_count, azs, az_names, terminate_list,
                   x, drain_calls, term_calls>>

\* one iteration of `for instance in instance_ids`:
\* remove_instance_from_ecs_cluster_by_instance_id, whose value is dropped;
\* after the last one the entry point returns
RemoveByInstanceId ==
    /\ pc = "by_instance_id"
    /\ ZoneBalanced
    /\ idx < Len(args.instance_ids)
    /\ \E resp \in TerminateResponses :
          LET ci == get_container_instance_id(args.instance_ids[idx + 1])
              r == remove_container_instance_from_ecs_cluster(ci, resp)
          IN  /\ container_instance_id' = ci
              /\ term_calls' = term_calls \o r.calls
              /\ hosts' = hosts_after({}, r.gone)
              /\ resp # "ok" => r.terminating
              /\ faults' = IF resp = "ok" THEN faults ELSE faults - 1
              /\ ret' = r.ret
              /\ errors' = errors \cup r.errors
              /\ idx' = idx + 1
              /\ pc' = IF Raised(r.ret) \/ idx' = Len(args.instance_ids)
                       THEN "done" ELSE pc
    /\ UNCHANGED <<suspended, runs, termination, listed, args,
                   draining_instances, asg, clock, sweeps, ordered_instances,
                   decrease_count, azs, az_names, terminate_list, x, drain_calls>>

\* The polling entry point: the gating alarm, MAX_WAIT, and the choice between
\* remove_instance_from_ecs_cluster and scale_down_ecs_cluster.
PollMain ==
    /\ pc = "main"
    /\ Polling
    /\ IF alarm_gate_closed
       THEN Ends(alarm_not_in_alarm, {"not_in_alarm"})
       ELSE /\ pc' = IF args.instance_ids # <<>> THEN "remove_instance" ELSE "scale_down"
            /\ UNCHANGED <<ret, errors>>
    /\ UNCHANGED <<suspended, runs, termination, listed, args, draining_instances,
                   container_instance_id, hosts, asg,
                   faults, clock,
                   sweeps, ordered_instances, decrease_count, azs, az_names, terminate_list,
                   x, idx, drain_calls, term_calls>>

\* remove_instance_from_ecs_cluster up to its loop: the pre-flight check, the
\* container instance of the id, its drain and the start time.  An id that
\* matches no instance gives None, which the client refuses as a parameter of
\* the first call that is made with it.
PollRemoveInstance ==
    /\ pc = "remove_instance"
    /\ Polling
    /\ IF Len(get_instances_in_cluster("DRAINING")) > 0
       THEN /\ Ends("False", {"draining"})
            /\ UNCHANGED <<container_instance_id, hosts, faults, drain_calls>>
       ELSE LET ci == get_container_instance_id(args.instance_ids[1])
            IN  /\ container_instance_id' = ci
                /\ IF ci = 0
                   THEN /\ Ends("ParamValidationError", {})
                        /\ UNCHANGED <<hosts, faults, drain_calls>>
                   ELSE \E resp \in DrainResponses(<<ci>>) :
                           LET d == poll_start_draining_instances(<<ci>>, resp)
                           IN  /\ drain_calls' = drain_calls \o d.calls
                               /\ hosts' = hosts_after(d.drained, {})
                               /\ faults' = IF resp.kind = "ok" THEN faults ELSE faults - 1
                               /\ IF Raised(d.ret)
                                  THEN Ends(d.ret, {})
                                  ELSE /\ pc' = "poll_one"
                                       /\ errors' = errors \cup d.errors
                                       /\ UNCHANGED ret
    /\ clock' = 0
    /\ UNCHANGED <<suspended, runs, termination, listed, args,
                   draining_instances, asg, sweeps, ordered_instances, decrease_count,
                   azs, az_names, terminate_list, x, idx, term_calls>>

\* One pass of the loop of remove_instance_from_ecs_cluster: the check with
\* its termination, the MAX_WAIT check with its termination, and the sleep.
PollRemoveInstanceSweep ==
    /\ pc = "poll_one"
    /\ Polling
    /\ LET can == poll_can_be_terminated(container_instance_id)
       IN  IF Raised(can)
           THEN /\ Ends(can, {})
                /\ UNCHANGED <<hosts, faults, clock, sweeps, term_calls>>
           ELSE \E r1, r2 \in TerminateResponses :
                LET t1 == IF Truthy(can)
                          THEN poll_terminate_and_remove_from_autoscaling_group(
                                   container_instance_id, r1)
                          ELSE [calls |-> <<>>, gone |-> {}, raised |-> "no"]
                    is_set == max_wait_is_set
                    is_hit == IF is_set = "True" THEN max_wait_is_hit(running_time_hours)
                              ELSE "False"
                    t2 == IF is_hit = "True"
                          THEN poll_terminate_and_remove_from_autoscaling_group(
                                   container_instance_id, r2)
                          ELSE [calls |-> <<>>, gone |-> {}, raised |-> "no"]
                    complete == Truthy(can) \/ is_hit = "True"
                IN  /\ faults' = faults - (IF Truthy(can) /\ r1 # "ok" THEN 1 ELSE 0)
                                        - (IF is_hit = "True" /\ r2 # "ok" THEN 1 ELSE 0)
                    /\ faults' >= 0
                    /\ ~Truthy(can) => r1 = "ok"
                    /\ is_hit # "True" => r2 = "ok"
                    /\ IF t1.raised # "no"
                       THEN /\ term_calls' = term_calls \o t1.calls
                            /\ hosts' = hosts_after({}, t1.gone)
                            /\ Ends(t1.raised, {})
                            /\ UNCHANGED <<clock, sweeps>>
                       ELSE IF Raised(is_set) \/ Raised(is_hit)
                       THEN /\ term_calls' = term_calls \o t1.calls
                            /\ hosts' = hosts_after({}, t1.gone)
                            /\ Ends("TypeError", {})
                            /\ UNCHANGED <<clock, sweeps>>
                       ELSE IF t2.raised # "no"
                       THEN /\ term_calls' = term_calls \o t1.calls \o t2.calls
                            /\ hosts' = hosts_after({}, t1.gone \cup t2.gone)
                            /\ Ends(t2.raised, {})
                            /\ UNCHANGED <<clock, sweeps>>
                       ELSE IF complete
                       THEN /\ term_calls' = term_calls \o t1.calls \o t2.calls
                            /\ hosts' = hosts_after({}, t1.gone \cup t2.gone)
                            /\ Ends("True", {})
                            /\ UNCHANGED <<clock, sweeps>>
                       ELSE /\ Sleeps
                            /\ UNCHANGED <<hosts, term_calls, pc, ret, errors>>
    /\ UNCHANGED <<suspended, runs, termination, listed, args,
                   draining_instances, container_instance_id, asg, ordered_instances,
                   decrease_count, azs, az_names, terminate_list, x, idx, drain_calls>>


-----------------------------------------------------------------------------
(* Whole runs, from the entry point. *)

\* hosts of a whole run
MaxRunHosts == 3

\* the count a whole run is asked for
MaxRunCount == 2

\* hosts of a run with a gating alarm or explicit instance ids, and the ids given
MaxGatedHosts == 2

MaxIds == 2

\* what a host of a whole run runs: nothing, a task the ignore list (and the
\* polling variant's logspout test) lets pass, or another task
RunTaskLists == {<<>>, <<LogspoutTask>>, <<OtherGroup>>}

RunHost(zone, status, tasks) == [az |-> zone, status |-> status, tasks |-> tasks]

\* the clusters of a whole run; the polling variant does not look zones up
RunClusters(variant) ==
    UNION {{[i \in 1..n |-> RunHost(zone[i], status[i], tasks[i])] :
               zone \in (IF variant = "poll" THEN {[i \in 1..n |-> 1]} ELSE ZoneListings(n)),
               status \in [1..n -> {"ACTIVE", "DRAINING"}],
               tasks \in [1..n -> RunTaskLists]} : n \in 0..MaxRunHosts}

\* the invocations: count, dry run, ignore list (zone-balanced variants),
\* --max-wait (polling variant), gating alarm and explicit instance ids
RunArgs(variant) ==
    {[variant |-> variant, py |-> py, count |-> count, dry_run |-> dry,
      ignore_list |-> il, MAX_WAIT |-> mw, instance_ids |-> ids, alarm |-> alarm] :
        py \in Interpreters(variant),
        count \in 0..MaxRunCount,
        dry \in BOOLEAN,
        il \in (IF variant = "poll" THEN {NoIgnoreList}
                ELSE {NoIgnoreList, IgnoreList(<< <<"b">> >>)}),
        mw \in (IF variant = "poll"
                THEN {MaxWaitUnset} \cup {MaxWaitGiven(h) : h \in 1..MaxWaitHours}
                ELSE {MaxWaitUnset}),
        ids \in {<<>>},
        alarm \in {"none"}}

\* invocations with a gating alarm or with explicit instance ids (0: an id of
\* no instance of the cluster)
GatedArgs(variant) ==
    {[variant |-> variant, py |-> 3, count |-> count, dry_run |-> dry,
      ignore_list |-> IgnoreList(<< <<"b">> >>), MAX_WAIT |-> mw,
      instance_ids |-> ids, alarm |-> alarm] :
        count \in 0..1,
        dry \in BOOLEAN,
        mw \in (IF variant = "poll" THEN {MaxWaitUnset, MaxWaitGiven(1)} ELSE {MaxWaitUnset}),
        ids \in (IF variant = "poll" THEN SeqsOf(0..MaxGatedHosts, 0, 1)
                 ELSE SeqsOf(0..MaxGatedHosts, 0, MaxIds)),
        alarm \in {"none", "in_alarm", "not_in_alarm"}}

InitRun ==
    \E variant \in {"poll", "ecs", "lambda"} :
       \/ \E a \in RunArgs(variant) : \E h \in RunClusters(variant) :
          \E g \in {[tag |-> FALSE, MinSize |-> 0], [tag |-> TRUE, MinSize |-> 1]} :
             Entered("main", a, h, g)
       \/ \E a \in GatedArgs(variant) : \E h \in RunClusters(variant) :
             /\ Len(h) <= MaxGatedHosts
             /\ Entered("main", a, h, [tag |-> TRUE, MinSize |-> 0])

NextRun ==
    \/ MainPreflight
    \/ MainPreflightRemove
    \/ MainGate
    \/ RemoveByInstanceId
    \/ ScaleDownRank
    \/ ScaleDownFloor
    \/ ScaleDownZones
    \/ ScaleDownSelect
    \/ ScaleDownDrain
    \/ ScaleDownRemove
    \/ ScaleDownReturn
    \/ PollMain
    \/ PollRemoveInstance
    \/ PollRemoveInstanceSweep
    \/ PollRank
    \/ PollFloor
    \/ PollDrain
    \/ PollCheck
    \/ PollSweepEnd
    \/ TaskStops

SpecRun == InitRun /\ [][NextRun]_vars


-----------------------------------------------------------------------------
(* The polling run's maximum wait, and dry runs.  Checked under SpecRun. *)

\* --max-wait was given
MaxWaitConfigured == args.MAX_WAIT # MaxWaitUnset

\* C9: in a polling run with a maximum wait of H hours, a sweep that ends with
\* hosts still pending after more than H whole hours terminates every pending
\* host whatever it runs, ends the loop and returns True; and a run with a
\* maximum wait that was not refused at its start ends in no other way than by
\* returning True.
C9_ForcedTermination ==
    /\ [][(/\ PollSweepEnd
           /\ MaxWaitConfigured
           /\ terminate_list # <<>>
           /\ running_time_hours > args.MAX_WAIT.val)
          => /\ pc' = "done"
             /\ ret' = "True"
             /\ terminate_list' = <<>>
             /\ args.dry_run \/ Range(terminate_list) \subseteq Range(term_calls')]_vars
    /\ []((Polling /\ MaxWaitConfigured /\ args.instance_ids = <<>> /\ pc = "done"
             /\ errors = {} /\ ret # "exit1")
          => ret = "True")

\* the errors that refuse a run at its start
RunLevelErrors == {"no_instances", "at_min_size", "not_enough", "too_many_azs", "draining",
                   "not_in_alarm"}

\* C10: a dry run issues no update-container-instance-state call and no
\* terminate call, whichever path it takes, and a dry run that is not refused
\* at its start ends normally: it returns True, or None where the code has no
\* return statement; it does not end in an exception.
C10_DryRun ==
    args.dry_run =>
        /\ drain_calls = <<>>
        /\ term_calls = <<>>
        /\ \A i \in 1..Len(hosts) : hosts[i].status # "GONE"
        /\ (pc = "done" /\ errors \cap RunLevelErrors = {} /\ args.alarm # "not_in_alarm"
              /\ (Polling => \A i \in Range(args.instance_ids) : i \in 1..Len(hosts)))
           => ret \in {"True", "None"}


-----------------------------------------------------------------------------
(* Whole runs in which backing calls may fail: an update-container-instance-
   state call answered with a non-success response or a client error, a
   describe-container-instances or terminate call answered with a client
   error. *)

\* the backing calls that may fail in one run
MaxFaults == 1

InitFaults ==
    \E variant \in {"poll", "ecs", "lambda"} : \E f \in 1..MaxFaults :
       \/ \E a \in RunArgs(variant) : \E h \in RunClusters(variant) :
          \E g \in {[tag |-> FALSE, MinSize |-> 0], [tag |-> TRUE, MinSize |-> 1]} :
             EnteredWithFaults("main", a, h, g, f)
       \/ \E a \in GatedArgs(variant) : \E h \in RunClusters(variant) :
             /\ Len(h) <= MaxGatedHosts
             /\ EnteredWithFaults("main", a, h, [tag |-> TRUE, MinSize |-> 0], f)

SpecFaults == InitFaults /\ [][NextRun]_vars


\* the non-success responses of an update-container-instance-state call that
\* _start_draining_instances reports: response metadata or status code
\* missing, a status code other than 200, a non-empty failures list
DrainFailures == {"no_metadata", "no_status", "bad_status", "failures"}

\* the hosts of the plan: the list handed to the drain call
PlanDrained == IF drain_calls = <<>> THEN {} ELSE Range(drain_calls[1])

\* C11: once the bulk drain call of a run was answered with a non-success
\* response, no terminate call is issued in that run for any host of the plan.
C11_FailedDrainStopsPlan ==
    errors \cap DrainFailures # {} => PlanDrained \cap Range(term_calls) = {}


\* a step of the loop over the plan in which a backing call of a termination
\* (the status re-read or the terminate call) raised a client error
TerminationFault == pc \in {"remove", "poll"} /\ faults' < faults

\* C12: a client error raised while one host of a plan is terminated does not
\* end the run in an exception, and the loop over the plan goes on with the
\* remaining hosts.
C12_TerminationFaultIsolated ==
    [][TerminationFault => ~Raised(ret') /\ pc' = pc]_vars


-----------------------------------------------------------------------------
(* scale_down_ecs_cluster called directly, on clusters that may hold DRAINING
   hosts, with every backing call succeeding. *)

\* the scaling groups of these runs: a minimum up to one above MaxMinSize, so
\* that a cluster of one host can be below its minimum
FloorGroups ==
    {[tag |-> FALSE, MinSize |-> 0]}
    \cup {[tag |-> TRUE, MinSize |-> m] : m \in 0..(MaxMinSize + 1)}

InitScaleDown ==
    \E variant \in {"poll", "ecs", "lambda"} :
    \E a \in RunArgs(variant) : \E h \in RunClusters(variant) : \E g \in FloorGroups :
       Entered("scale_down", a, h, g)

NextScaleDown ==
    \/ ScaleDownRank
    \/ ScaleDownFloor
    \/ ScaleDownZones
    \/ ScaleDownSelect
    \/ ScaleDownDrain
    \/ ScaleDownRemove
    \/ ScaleDownReturn
    \/ PollRank
    \/ PollFloor
    \/ PollDrain
    \/ PollCheck
    \/ PollSweepEnd
    \/ TaskStops

SpecScaleDown == InitScaleDown /\ [][NextScaleDown]_vars

\* The cluster as it was when the function was entered.  Only the hosts of the
\* plan change status in such a run, from ACTIVE, so the hosts ACTIVE at entry
\* are those ACTIVE now and those of the plan, and the hosts DRAINING at entry
\* are those DRAINING now that are not of the plan.
ActiveAtEntry == {i \in 1..Len(hosts) : hosts[i].status = "ACTIVE"} \cup PlanDrained

DrainingAtEntry == {i \in 1..Len(hosts) : hosts[i].status = "DRAINING"} \ PlanDrained

\* the floor: the scaling group's minimum size, 1 when the host carries no
\* scaling-group tag
Floor == IF asg.tag THEN asg.MinSize ELSE 1

\* the run-level preconditions
EmptyListing == ActiveAtEntry = {}

AtOrBelowFloor == Cardinality(ActiveAtEntry) <= Floor

NothingToRemove == Min(args.count, Cardinality(ActiveAtEntry) - Floor) <= 0

DrainingAtPreflight == Polling /\ DrainingAtEntry # {}

PreconditionFails ==
    EmptyListing \/ AtOrBelowFloor \/ NothingToRemove \/ DrainingAtPreflight

\* C13: when a run-level precondition of scale_down_ecs_cluster fails (empty
\* listing, fleet at or below the floor, effective count <= 0, or a DRAINING
\* host at the polling variant's pre-flight check) the function issues no
\* drain-state call and no terminate call, never gets as far as the drain,
\* and returns False with the error logged.
C13_PreconditionFailure ==
    PreconditionFails =>
        /\ drain_calls = <<>>
        /\ term_calls = <<>>
        /\ pc \in {"scale_down", "min_size", "done"}
        /\ pc = "done" => /\ ret = "False"
                          /\ errors \cap {"no_instances", "at_min_size", "not_enough",
                                          "draining"} # {}

\* C13's case: a run that is not a dry run has returned, its cluster of two
\* ACTIVE hosts being at its floor of two
C13_Witness ==
    /\ pc = "done"
    /\ ~args.dry_run
    /\ ~EmptyListing
    /\ AtOrBelowFloor
    /\ Floor = 2
    /\ Cardinality(ActiveAtEntry) = 2
    /\ ret = "False"


-----------------------------------------------------------------------------
(* The hosts handed to the drain call.  Checked under SpecRun. *)

\* the list an update-container-instance-state call was just issued with
JustDrained == Range(drain_calls'[Len(drain_calls')])

\* C14: no host that is DRAINING when the run reads the cluster is in the
\* list handed to the drain-state call: at every drain call, each host of its
\* list was not DRAINING before the call.
C14_NoDrainingHostDrained ==
    [][drain_calls' # drain_calls =>
          \A i \in JustDrained : i \in 1..Len(hosts) => hosts[i].status # "DRAINING"]_vars

\* C14's case: a zone-balanced run has drained its plan while a host that was
\* DRAINING from the start (it could not be terminated) is still in the cluster
C14_Witness ==
    /\ ZoneBalanced
    /\ drain_calls # <<>>
    /\ \E i \in 1..Len(hosts) : hosts[i].status = "DRAINING" /\ i \notin PlanDrained


-----------------------------------------------------------------------------
(* The resolution of the floor.  Checked under SpecFaults. *)

\* a step that resolves the floor without determining the scaling group's
\* minimum: the queried host carries no scaling-group tag, or a lookup behind
\* the resolution gave no data or failed
FloorUndetermined == pc = "min_size" /\ (~asg.tag \/ faults' < faults)

\* the step goes on as the floor m has it: it returns False when the listed
\* hosts are not more than m or nothing is left to remove, and else goes on
\* with the count lowered to what m allows
FlooredAt(m) ==
    LET n == Len(ordered_instances)
    IN  IF n <= m \/ Min(decrease_count, n - m) <= 0
        THEN pc' = "done" /\ ret' = "False"
        ELSE /\ pc' \in {"zones", "drain"}
             /\ decrease_count' = Min(decrease_count, n - m)

\* C15: whenever the floor cannot be determined (no scaling-group tag on the
\* queried host, an instance lookup without data, a scaling-group lookup that
\* fails or returns no group) the run goes on with the default floor 1: it
\* does not end in an exception.
C15_DefaultFloor == [][FloorUndetermined => ~Raised(ret') /\ FlooredAt(1)]_vars


-----------------------------------------------------------------------------
(* _get_instances_in_cluster and the pages of list_container_instances. *)

\* hosts of a paged listing, and the hosts a page holds
MaxListed == 5

ListPageSize == 2

\* the pages a listing of MaxListed hosts can have
MaxPages == (MaxListed + ListPageSize - 1) \div ListPageSize

\* list_container_instances(cluster, status, nextToken): the page of the
\* hosts of that status that the token stands for.  The first page has no
\* token (0); the token of a further page is its number.  The service filters
\* by the status handed to this very query.
list_container_instances(status, next_token) ==
    LET all == get_instances_in_cluster(status)
        first == next_token * ListPageSize + 1
        last == Min(first + ListPageSize - 1, Len(all))
    IN  [containerInstanceArns |-> SubSeq(all, first, last),
         nextToken |-> IF last < Len(all) THEN next_token + 1 ELSE 0]

\* the envelope of the response to the query for a page: "ok" is a
\* ResponseMetadata with HTTPStatusCode 200
Envelopes == {"ok", "no_metadata", "no_status", "bad_status"}

\* (mutant) the nextToken of a page is not followed
get_instances_of_first_page(next_token, status) ==
    [result |-> IF args.envelopes[next_token + 1] = "ok"
                THEN list_container_instances(status, next_token).containerInstanceArns
                ELSE <<>>,
     queries |-> <<[nextToken |-> next_token, status |-> status]>>]

\* _get_instances_in_cluster(next_token, status), page by page as the code
\* recurses: what it returns and the queries it issued.  A response that is
\* not a success adds nothing to the result and ends the recursion.
RECURSIVE get_instances_in_cluster_from(_, _)
get_instances_in_cluster_from(next_token, status) ==
    LET query_result == list_container_instances(status, next_token)
        query == <<[nextToken |-> next_token, status |-> status]>>
    IN  IF args.envelopes[next_token + 1] # "ok"
        THEN [result |-> <<>>, queries |-> query]
        ELSE IF query_result.nextToken # 0
        THEN LET rest == get_instances_in_cluster_from(query_result.nextToken, status)
             IN  [result |-> query_result.containerInstanceArns \o rest.result,
                  queries |-> query \o rest.queries]
        ELSE [result |-> query_result.containerInstanceArns, queries |-> query]

\* a caller lists the cluster
ListInstances ==
    /\ pc = "list"
    /\ listed' = get_instances_in_cluster_from(0, args.status)
    /\ pc' = "done"
    /\ UNCHANGED <<suspended, runs, termination, args, hosts, asg, faults, clock, sweeps,
                   draining_instances, container_instance_id, ordered_instances,
                   decrease_count, azs, az_names, terminate_list, x, idx, drain_calls,
                   term_calls, errors, ret>>

\* Listings: every cluster of up to MaxListed ACTIVE or DRAINING hosts, every
\* status filter and every envelope for each page
InitListing ==
    \E variant \in {"poll", "ecs", "lambda"} :
    \E n \in 0..MaxListed :
    \E status \in [1..n -> {"ACTIVE", "DRAINING"}] :
    \E filter \in {"ACTIVE", "DRAINING", "ANY"} :
    \E envelopes \in [1..MaxPages -> Envelopes] :
        Entered("list",
                [variant |-> variant, count |-> 0, status |-> filter,
                 envelopes |-> envelopes],
                [i \in 1..n |-> RunHost(1, status[i], <<>>)],
                [tag |-> FALSE, MinSize |-> 0])

NextListing == ListInstances

SpecListing == InitListing /\ [][NextListing]_vars

\* the hosts the status filter of the call selects, in listing order
Selected ==
    LET Sel[i \in 0..Len(hosts)] ==
            IF i = 0 THEN <<>>
            ELSE IF args.status = "ANY" \/ hosts[i].status = args.status
                 THEN Append(Sel[i - 1], i) ELSE Sel[i - 1]
    IN  Sel[Len(hosts)]

\* the pages the selected hosts make
PageCount == Max(1, (Len(Selected) + ListPageSize - 1) \div ListPageSize)

\* every response of the chain is a success
AllPagesSucceed == \A k \in 1..PageCount : args.envelopes[k] = "ok"

\* C16: when every page query succeeds, _get_instances_in_cluster returns
\* the hosts of all pages in page order, that is the whole selection in
\* listing order; it issues one query per page, the first without a token
\* and each further one with the token of the page before, every one with
\* the status filter of the call; and it ends with the last page.
C16_ListsAllPages ==
    (pc = "done" /\ AllPagesSucceed) =>
        /\ listed.result = Selected
        /\ Len(listed.queries) = PageCount
        /\ \A k \in 1..Len(listed.queries) :
              /\ listed.queries[k].nextToken = k - 1
              /\ listed.queries[k].status = args.status

\* C16's case: a listing of more than one page under a status filter that
\* leaves some hosts out
C16_Witness ==
    /\ pc = "done"
    /\ AllPagesSucceed
    /\ args.status = "ACTIVE"
    /\ Len(listed.queries) > 1
    /\ Len(listed.result) > ListPageSize
    /\ Len(listed.result) < Len(hosts)


\* the first page of the chain whose response is not a success, 0 when every
\* response is one
FailedPage ==
    IF AllPagesSucceed THEN 0
    ELSE CHOOSE k \in 1..PageCount :
            args.envelopes[k] # "ok" /\ \A j \in 1..(k - 1) : args.envelopes[j] = "ok"

\* the hosts of the pages before page k
PagesBefore(k) == SubSeq(Selected, 1, Min((k - 1) * ListPageSize, Len(Selected)))

\* C17: when the query for a later page fails (its response has no success
\* envelope or a status code other than 200), _get_instances_in_cluster does
\* not return the hosts of the earlier pages as its listing.
C17_NoSilentTruncation ==
    (pc = "done" /\ FailedPage > 1) => listed.result # PagesBefore(FailedPage)


-----------------------------------------------------------------------------
(* The ranked listing.  Checked under SpecSelect. *)

\* the listing the ranker works on
RankerListing == get_instances_in_cluster(IF Polling THEN "ANY" ELSE "ACTIVE")

\* C18: the ranked listing holds every listed host exactly once, each with
\* its task count, in ascending order of task count, hosts of equal task
\* count in their listing order.
C18_StableRanking ==
    pc = "min_size" =>
        /\ Len(ordered_instances) = Len(RankerListing)
        /\ Range(container_instance_list) = Range(RankerListing)
        /\ \A k \in 1..Len(ordered_instances) :
              ordered_instances[k].task_count =
                  get_instance_task_count(ordered_instances[k].container_instance_id)
        /\ \A j, k \in 1..Len(ordered_instances) :
              j < k =>
                 \/ ordered_instances[j].task_count < ordered_instances[k].task_count
                 \/ /\ ordered_instances[j].task_count = ordered_instances[k].task_count
                    /\ ordered_instances[j].container_instance_id
                          < ordered_instances[k].container_instance_id

\* C18's case: a ranked listing that is not in listing order and holds hosts
\* of equal task count
C18_Witness ==
    /\ pc = "min_size"
    /\ \E j, k \in 1..Len(ordered_instances) :
          /\ j < k
          /\ ordered_instances[j].container_instance_id
                > ordered_instances[k].container_instance_id
    /\ \E j, k \in 1..Len(ordered_instances) :
          /\ j < k
          /\ ordered_instances[j].task_count = ordered_instances[k].task_count


-----------------------------------------------------------------------------
(* _terminate_and_remove_from_autoscaling_group called for one host. *)

\* hosts of the cluster a termination is called in
MaxTerminationHosts == 2

\* the termination of the container instance the caller names (the one
\* entry of args.instance_ids): its backing calls and the status the re-read
\* gave ("none" when the re-read raised)
TerminateInstance ==
    /\ pc = "terminate"
    /\ \E resp \in TerminateResponses :
          LET ci == args.instance_ids[1]
              t == IF Polling
                   THEN poll_terminate_and_remove_from_autoscaling_group(ci, resp)
                   ELSE terminate_and_remove_from_autoscaling_group(ci, resp)
          IN  /\ container_instance_id' = ci
              /\ termination' =
                    [calls |-> termination_calls(ci, resp),
                     status |-> IF resp = "describe_error" THEN "none"
                                ELSE hosts[ci].status]
              /\ term_calls' = term_calls \o t.calls
              /\ hosts' = hosts_after({}, t.gone)
              /\ faults' = IF resp = "ok" THEN faults ELSE faults - 1
              /\ ret' = IF t.raised = "no" THEN "result" ELSE t.raised
              /\ errors' = IF resp = "terminate_error" /\ ~Polling /\ ~args.dry_run
                           THEN errors \cup {"terminate_error"} ELSE errors
    /\ pc' = "done"
    /\ UNCHANGED <<suspended, runs, listed, args, draining_instances, asg, clock, sweeps,
                   ordered_instances, decrease_count, azs, az_names, terminate_list, x,
                   idx, drain_calls>>

\* Terminations: every variant, dry run or not, a host that is ACTIVE or
\* DRAINING in a cluster of up to MaxTerminationHosts, with and without a
\* failing backing call
InitTerminate ==
    \E variant \in {"poll", "ecs", "lambda"} :
    \E py \in Interpreters(variant) :
    \E dry \in BOOLEAN :
    \E n \in 1..MaxTerminationHosts :
    \E status \in [1..n -> {"ACTIVE", "DRAINING"}] :
    \E tasks \in [1..n -> RunTaskLists] :
    \E ci \in 1..n :
    \E f \in 0..MaxFaults :
        EnteredWithFaults("terminate",
                          [variant |-> variant, py |-> py, count |-> 1, dry_run |-> dry,
                           ignore_list |-> NoIgnoreList, MAX_WAIT |-> MaxWaitUnset,
                           instance_ids |-> <<ci>>, alarm |-> "none"],
                          [i \in 1..n |-> RunHost(1, status[i], tasks[i])],
                          [tag |-> TRUE, MinSize |-> 0], f)

NextTerminate == TerminateInstance

SpecTerminate == InitTerminate /\ [][NextTerminate]_vars

\* the calls of one kind among the backing calls of the termination
CallsOf(kind) == {k \in 1..Len(termination.calls) : termination.calls[k].call = kind}

\* C19: a termination whose re-read of the host's status returned has first
\* re-read the status of that host and, when the run is not a dry run, has
\* then issued exactly one terminate call, for that host's instance and with
\* the desired capacity to be decremented, whether the status read is
\* DRAINING or not; in a dry run it issues no terminate call.
C19_OneTerminateCall ==
    (pc = "done" /\ termination.status # "none") =>
        /\ termination.calls[1] =
              [call |-> "describe_container_instances",
               containerInstances |-> <<container_instance_id>>]
        /\ Cardinality(CallsOf("describe_container_instances")) = 1
        /\ Cardinality(CallsOf("terminate_instance_in_auto_scaling_group"))
              = IF args.dry_run THEN 0 ELSE 1
        /\ \A k \in CallsOf("terminate_instance_in_auto_scaling_group") :
              /\ k > 1
              /\ termination.calls[k].InstanceId = container_instance_id
              /\ termination.calls[k].ShouldDecrementDesiredCapacity
        /\ term_calls = IF args.dry_run THEN <<>> ELSE <<container_instance_id>>

\* C19's case: a host whose status was read as ACTIVE, not DRAINING, has been
\* terminated outside a dry run
C19_Witness ==
    /\ pc = "done"
    /\ ~args.dry_run
    /\ termination.status = "ACTIVE"
    /\ Len(termination.calls) = 2
    /\ hosts[container_instance_id].status = "GONE"


-----------------------------------------------------------------------------
(* The cluster name and the region of a run, up to its first backing call. *)

\* hosts of the cluster of such a run
MaxConfigHosts == 3

\* `not value` for a cluster name or region: None (the key or keyword is
\* absent) and the empty string are both falsy
IsMissing(value) == value \in {"None", "empty"}

\* the first backing call of a run, list_container_instances with the
\* cluster name as it is: botocore refuses None for a string parameter before
\* it sends anything (ParamValidationError); any str, the empty one too, goes
\* out as a request
first_listing(status) ==
    IF args.cluster_name = "None"
    THEN [raised |-> "ParamValidationError", listed |-> listed]
    ELSE [raised |-> "no", listed |-> get_instances_in_cluster_from(0, status)]

\* The entry point up to its first backing call.  lambda_handler returns when
\* the event names no cluster or no region; the command-line variants declare
\* both options required, so argparse ends the run with status 2 when one is
\* not given.  Otherwise the clients are built and the cluster is listed.
ConfigureRun ==
    /\ pc = "configure"
    /\ IF IsMissing(args.cluster_name) \/ IsMissing(args.region)
       THEN /\ Ends(IF args.variant = "lambda" THEN "None" ELSE "exit2",
                    {"no_cluster_or_region"})
            /\ UNCHANGED listed
       ELSE LET l == first_listing("DRAINING")
            IN  /\ listed' = l.listed
                /\ Ends(IF l.raised = "no" THEN "running" ELSE l.raised, {})
    /\ UNCHANGED <<suspended, runs, termination, args, hosts, asg, faults, clock, sweeps,
                   draining_instances, container_instance_id, ordered_instances,
                   decrease_count, azs, az_names, terminate_list, x, idx, drain_calls,
                   term_calls>>

\* scale_down_ecs_cluster called directly, up to its first backing call:
\* `if not cluster_name` logs a critical record and the function goes on, to
\* the pre-flight listing (polling variant) or the ranked listing
ConfigureScaleDown ==
    /\ pc = "configure_scale_down"
    /\ LET l == first_listing(IF Polling THEN "DRAINING" ELSE "ACTIVE")
       IN  /\ listed' = l.listed
           /\ Ends(IF l.raised = "no" THEN "running" ELSE l.raised,
                   IF IsMissing(args.cluster_name) THEN {"no_cluster_name"} ELSE {})
    /\ UNCHANGED <<suspended, runs, termination, args, hosts, asg, faults, clock, sweeps,
                   draining_instances, container_instance_id, ordered_instances,
                   decrease_count, azs, az_names, terminate_list, x, idx, drain_calls,
                   term_calls>>

\* Runs from the entry point (an event may carry an empty cluster name or
\* region, a command line gives each option or not) and direct calls of
\* scale_down_ecs_cluster, whose clients are built already
InitConfigure ==
    \E variant \in {"poll", "ecs", "lambda"} :
    \E at \in {"configure", "configure_scale_down"} :
    \E name, region \in {"given", "empty", "None"} :
    \E n \in 0..MaxConfigHosts :
    \E status \in [1..n -> {"ACTIVE", "DRAINING"}] :
        /\ (at = "configure" /\ variant # "lambda") => "empty" \notin {name, region}
        /\ at = "configure_scale_down" => region = "given"
        /\ Entered(at,
                   [variant |-> variant, count |-> 1, cluster_name |-> name,
                    region |-> region, envelopes |-> [k \in 1..MaxPages |-> "ok"]],
                   [i \in 1..n |-> RunHost(1, status[i], <<>>)],
                   [tag |-> FALSE, MinSize |-> 0])

NextConfigure ==
    \/ ConfigureRun
    \/ ConfigureScaleDown

SpecConfigure == InitConfigure /\ [][NextConfigure]_vars

\* C20: a run without a cluster name or without a region issues no backing
\* call: no list_container_instances query, no drain-state call and no
\* terminate call, from the entry point as well as in scale_down_ecs_cluster
\* called directly without a cluster name.
C20_NoCallWithoutClusterOrRegion ==
    (IsMissing(args.cluster_name) \/ IsMissing(args.region)) =>
        /\ listed.queries = <<>>
        /\ drain_calls = <<>>
        /\ term_calls = <<>>


-----------------------------------------------------------------------------
(* Removal of a host the caller names.  Checked under SpecRun. *)

\* The run has come to the removal of a named host that is in the cluster and
\* was not DRAINING when the run read it: in the polling variant the
\* pre-flight check has let the run pass; in the other variants nothing
\* drains on this path, so such a host is ACTIVE still.
ExplicitHostRun ==
    /\ args.instance_ids # <<>>
    /\ ~args.dry_run
    /\ container_instance_id # 0
    /\ Polling \/ hosts[container_instance_id].status = "ACTIVE"

\* C21: a run that removes a host named by the caller first issues a
\* drain-state call for that host, issues no terminate call for it before
\* that, and ends, without an exception, only once it has terminated the host
\* (it was found terminable, or the maximum wait was exceeded).
C21_ExplicitHostSequence ==
    ExplicitHostRun =>
        /\ container_instance_id \in Range(term_calls)
              => <<container_instance_id>> \in Range(drain_calls)
        /\ pc = "done" =>
              /\ ~Raised(ret)
              /\ <<container_instance_id>> \in Range(drain_calls)
              /\ container_instance_id \in Range(term_calls)


-----------------------------------------------------------------------------
(* The balance the two-zone selection leaves.  Checked under SpecSelect. *)

\* the hosts of zone z that a plan leaves in the cluster
RemainingIn(z, plan) == ListedIn(z) \ plan

\* the difference between the two zones' remaining counts under a plan
ZoneDifference(plan) ==
    Abs(Cardinality(RemainingIn(az_names[1], plan))
        - Cardinality(RemainingIn(az_names[2], plan)))

\* the plans one swap away: a selected host s is kept and a host u of the
\* other zone that was not selected is taken in its place
Swaps ==
    {<<s, u>> \in Range(terminate_list) \X (Listed \ Range(terminate_list)) :
        hosts[s].az # hosts[u].az}

Swapped(s, u) == (Range(terminate_list) \ {s}) \cup {u}

\* C22: the plan of a two-zone selection is swap-optimal: no plan that takes
\* a non-selected host of the other zone in place of a selected host leaves
\* the two zones' remaining counts strictly closer than the plan does.
C22_SwapOptimal ==
    (TwoZoneSelection /\ PlanChosen) =>
        \A p \in Swaps :
            ZoneDifference(Swapped(p[1], p[2])) >= ZoneDifference(Range(terminate_list))

\* C22's case: a plan of two hosts, one of each zone, that leaves a host in
\* each zone, so that swaps in both directions exist
C22_Witness ==
    /\ TwoZoneSelection /\ PlanChosen
    /\ Len(terminate_list) = 2
    /\ \A z \in ZonesSpanned :
          /\ \E p \in Swaps : hosts[p[1]].az = z
          /\ RemainingIn(z, Range(terminate_list)) # {}


-----------------------------------------------------------------------------
(* Sequences of runs against one cluster: when a run has ended, the tool is
   invoked again.  Nothing but the tool changes the cluster, and every backing
   call succeeds. *)

\* the invocations of a sequence, and the hosts of its cluster
MaxRuns == 3

MaxSequenceHosts == 3

\* the invocations of a sequence: auto-selected or with one instance id
SequenceArgs(variant, py) ==
    {[variant |-> variant, py |-> py, count |-> count, dry_run |-> dry,
      ignore_list |-> IgnoreList(<< <<"b">> >>), MAX_WAIT |-> MaxWaitUnset,
      instance_ids |-> ids, alarm |-> "none"] :
        count \in 0..MaxRunCount,
        dry \in BOOLEAN,
        ids \in SeqsOf(1..MaxSequenceHosts, 0, 1)}

\* The run has ended (it returned, exited, or an exception ended it) and the
\* tool is invoked again: a new process, with its own arguments, against the
\* cluster as the runs before left it.
NextInvocation ==
    /\ pc = "done"
    /\ suspended = NoRun
    /\ runs < MaxRuns
    /\ \E a \in SequenceArgs(args.variant, args.py) :
          /\ args' = a
          /\ decrease_count' = a.count
    /\ runs' = runs + 1
    /\ pc' = "main"
    /\ clock' = 0
    /\ sweeps' = 0
    /\ draining_instances' = <<>>
    /\ container_instance_id' = 0
    /\ ordered_instances' = <<>>
    /\ azs' = <<>>
    /\ az_names' = <<>>
    /\ terminate_list' = <<>>
    /\ x' = 0
    /\ idx' = 0
    /\ drain_calls' = <<>>
    /\ term_calls' = <<>>
    /\ errors' = {}
    /\ ret' = "running"
    /\ UNCHANGED <<suspended, termination, listed, hosts, asg, faults>>

\* a cluster no host of which the tool has touched: every host ACTIVE
UntouchedCluster(h) == \A i \in 1..Len(h) : h[i].status = "ACTIVE"

InitSequence ==
    \E variant \in {"poll", "ecs", "lambda"} :
    \E a \in SequenceArgs(variant, 3) :
    \E h \in RunClusters(variant) :
    \E g \in ScalingGroups :
        /\ Len(h) <= MaxSequenceHosts
        /\ UntouchedCluster(h)
        /\ Entered("main", a, h, g)

NextSequence ==
    \/ NextRun
    \/ NextInvocation

SpecSequence == InitSequence /\ [][NextSequence]_vars

\* the hosts the tool has neither drained nor terminated
Untouched == {i \in 1..Len(hosts) : hosts[i].status = "ACTIVE"}

\* C23: through any sequence of runs, auto-selected or with explicit instance
\* ids, the hosts that the tool has neither drained nor terminated are never
\* fewer than the scaling group's minimum size (1 when the host carries no
\* scaling-group tag), provided the cluster started with at least that many.
C23_FloorAcrossRuns ==
    Len(hosts) >= Floor => Cardinality(Untouched) >= Floor


-----------------------------------------------------------------------------
(* What scale_down_ecs_cluster returns.  Checked under SpecScaleDown. *)

\* the errors logged on the paths on which the function gives up before the
\* drain
AbortErrors == {"no_instances", "at_min_size", "not_enough", "too_many_azs", "draining"}

\* C24: scale_down_ecs_cluster, when no exception ends it, returns a boolean:
\* False on every path on which it gave up (empty cluster, at or below the
\* minimum size, nothing left to remove, more than two zones, DRAINING hosts
\* at the pre-flight check) and True on every path on which the plan was
\* drained and processed.
C24_BooleanOutcome ==
    (pc = "done" /\ ~Raised(ret)) =>
        IF errors \cap AbortErrors # {} THEN ret = "False" ELSE ret = "True"


-----------------------------------------------------------------------------
(* The polling loops as long as they run: polling runs whose own steps are
   always taken in the end (the process runs on, and every sleep returns),
   while a task of a pending host may stop or never stop. *)

\* hosts of such a run
MaxPollingHosts == 2

\* the polling runs: auto-selected or with an instance id, with and without
\* --max-wait, under both interpreters
PollingArgs ==
    {[variant |-> "poll", py |-> py, count |-> count, dry_run |-> FALSE,
      ignore_list |-> NoIgnoreList, MAX_WAIT |-> mw, instance_ids |-> ids,
      alarm |-> "none"] :
        py \in Interpreters("poll"),
        count \in 1..MaxRunCount,
        mw \in {MaxWaitUnset} \cup {MaxWaitGiven(h) : h \in 1..MaxWaitHours},
        ids \in SeqsOf(1..MaxPollingHosts, 0, 1)}

InitPolling ==
    \E a \in PollingArgs : \E h \in RunClusters("poll") :
    \E g \in {[tag |-> FALSE, MinSize |-> 0], [tag |-> TRUE, MinSize |-> 0]} :
        /\ Len(h) <= MaxPollingHosts
        /\ Entered("main", a, h, g)

\* a step of the run itself
PollingStep ==
    \/ PollMain
    \/ PollRemoveInstance
    \/ PollRemoveInstanceSweep
    \/ PollRank
    \/ PollFloor
    \/ PollDrain
    \/ PollCheck
    \/ PollSweepEnd

NextPolling ==
    \/ PollMain
    \/ PollRemoveInstance
    \/ PollRemoveInstanceSweep
    \/ PollRank
    \/ PollFloor
    \/ PollDrain
    \/ PollCheck
    \/ PollSweepEnd
    \/ TaskStops

SpecPolling == InitPolling /\ [][NextPolling]_vars /\ WF_vars(PollingStep)

\* the run is in one of its two polling loops, with these hosts pending
InLoop == pc \in {"poll", "poll_one"}

Pending == IF pc = "poll" THEN Range(terminate_list) ELSE {container_instance_id}

\* the loop has ended: the function returned True
LoopEnded == pc = "done" /\ ret = "True"

\* every pending host has become terminable for good: tasks only stop, so a
\* host that is terminable stays so
AllTerminable == \A i \in Pending : Truthy(poll_can_be_terminated(i))

\* C25: with a maximum wait configured the polling loop ends whatever the
\* tasks of the pending hosts do; with none configured it ends when every
\* pending host becomes terminable, and only then: while a pending host is not
\* terminable the loop does not end.
C25_LoopTermination ==
    /\ [](InLoop /\ MaxWaitConfigured => <>LoopEnded)
    /\ [](InLoop /\ ~MaxWaitConfigured /\ AllTerminable => <>LoopEnded)
    /\ [][(InLoop /\ ~MaxWaitConfigured /\ ~AllTerminable) => ~LoopEnded']_vars


-----------------------------------------------------------------------------
(* Two runs against one cluster at the same time.  Each is a process of its
   own: the two share nothing but the cluster, and their backing calls
   interleave in any order. *)

\* hosts of the cluster of two concurrent runs
MaxConcurrentHosts == 3

\* what a run keeps for itself
LocalState ==
    [args |-> args, clock |-> clock, sweeps |-> sweeps, pc |-> pc,
     draining_instances |-> draining_instances,
     container_instance_id |-> container_instance_id,
     ordered_instances |-> ordered_instances, decrease_count |-> decrease_count,
     azs |-> azs, az_names |-> az_names, terminate_list |-> terminate_list,
     x |-> x, idx |-> idx, drain_calls |-> drain_calls, term_calls |-> term_calls,
     errors |-> errors, ret |-> ret]

\* what a run that has just been started keeps
EntryState(at, a) ==
    [args |-> a, clock |-> 0, sweeps |-> 0, pc |-> at, draining_instances |-> <<>>,
     container_instance_id |-> 0, ordered_instances |-> <<>>,
     decrease_count |-> a.count, azs |-> <<>>, az_names |-> <<>>,
     terminate_list |-> <<>>, x |-> 0, idx |-> 0, drain_calls |-> <<>>,
     term_calls |-> <<>>, errors |-> {}, ret |-> "running"]

\* The other run takes the next steps: the run that was executing waits, as
\* it is, and the one that waited goes on from where it was.
Switch ==
    /\ suspended # NoRun
    /\ suspended' = LocalState
    /\ args' = suspended.args
    /\ clock' = suspended.clock
    /\ sweeps' = suspended.sweeps
    /\ pc' = suspended.pc
    /\ draining_instances' = suspended.draining_instances
    /\ container_instance_id' = suspended.container_instance_id
    /\ ordered_instances' = suspended.ordered_instances
    /\ decrease_count' = suspended.decrease_count
    /\ azs' = suspended.azs
    /\ az_names' = suspended.az_names
    /\ terminate_list' = suspended.terminate_list
    /\ x' = suspended.x
    /\ idx' = suspended.idx
    /\ drain_calls' = suspended.drain_calls
    /\ term_calls' = suspended.term_calls
    /\ errors' = suspended.errors
    /\ ret' = suspended.ret
    /\ UNCHANGED <<runs, termination, listed, hosts, asg, faults>>

\* the invocations of two concurrent auto-selected runs of one variant
ConcurrentArgs(variant, py) ==
    {[variant |-> variant, py |-> py, count |-> count, dry_run |-> FALSE,
      ignore_list |-> IgnoreList(<< <<"b">> >>), MAX_WAIT |-> MaxWaitUnset,
      instance_ids |-> <<>>, alarm |-> "none"] : count \in 1..MaxRunCount}

\* Two runs are started on a cluster no host of which is DRAINING; every
\* backing call succeeds.
InitConcurrent ==
    \E variant \in {"poll", "ecs", "lambda"} :
    \E py \in Interpreters(variant) :
    \E a, b \in ConcurrentArgs(variant, py) :
    \E h \in RunClusters(variant) :
    \E g \in ScalingGroups :
        /\ Len(h) <= MaxConcurrentHosts
        /\ UntouchedCluster(h)
        /\ args = EntryState("main", a).args
        /\ clock = EntryState("main", a).clock
        /\ sweeps = EntryState("main", a).sweeps
        /\ pc = EntryState("main", a).pc
        /\ draining_instances = EntryState("main", a).draining_instances
        /\ container_instance_id = EntryState("main", a).container_instance_id
        /\ ordered_instances = EntryState("main", a).ordered_instances
        /\ decrease_count = EntryState("main", a).decrease_count
        /\ azs = EntryState("main", a).azs
        /\ az_names = EntryState("main", a).az_names
        /\ terminate_list = EntryState("main", a).terminate_list
        /\ x = EntryState("main", a).x
        /\ idx = EntryState("main", a).idx
        /\ drain_calls = EntryState("main", a).drain_calls
        /\ term_calls = EntryState("main", a).term_calls
        /\ errors = EntryState("main", a).errors
        /\ ret = EntryState("main", a).ret
        /\ suspended = EntryState("main", b)
        /\ runs = 2
        /\ hosts = h
        /\ asg = g
        /\ faults = 0
        /\ listed = [result |-> <<>>, queries |-> <<>>]
        /\ termination = [calls |-> <<>>, status |-> "none"]

NextConcurrent ==
    \/ MainPreflight
    \/ MainPreflightRemove
    \/ MainGate
    \/ ScaleDownRank
    \/ ScaleDownFloor
    \/ ScaleDownZones
    \/ ScaleDownSelect
    \/ ScaleDownDrain
    \/ ScaleDownRemove
    \/ ScaleDownReturn
    \/ PollMain
    \/ PollRank
    \/ PollFloor
    \/ PollDrain
    \/ PollCheck
    \/ PollSweepEnd
    \/ TaskStops
    \/ Switch

SpecConcurrent == InitConcurrent /\ [][NextConcurrent]_vars


\* the hosts a run has named in its drain calls
DrainedBy(calls) == UNION {Range(calls[k]) : k \in 1..Len(calls)}

\* the run that waits has chosen its plan and stands before its drain call
OtherPlanned == suspended # NoRun /\ suspended.pc = "drain" /\ suspended.drain_calls = <<>>

\* the run that waits has issued its drain call
OtherDrained == suspended # NoRun /\ suspended.drain_calls # <<>>

\* a step of the run that executes
OwnStep == suspended' = suspended

\* C26: the pre-flight check is no mutual exclusion between two runs.  While
\* no host is DRAINING, a run that lists and checks the cluster passes, although
\* the other run has already chosen its plan and stands before its drain call,
\* and the hosts of that plan are in the listing this run plans from; and a run
\* that has chosen its plan issues its drain call for the whole plan, although
\* the other run has drained in the meantime.
C26_CheckIsNoLock ==
    /\ [][(pc = "scale_down" /\ OtherPlanned /\ UntouchedCluster(hosts) /\ OwnStep)
             => /\ pc' = "min_size"
                /\ Range(suspended.terminate_list) \subseteq Listed']_vars
    /\ [][(pc = "drain" /\ OtherDrained /\ OwnStep)
             => drain_calls' = <<terminate_list>>]_vars

\* both runs have drained, and a host is in the plan of both
C26_Witness ==
    /\ drain_calls # <<>>
    /\ OtherDrained
    /\ DrainedBy(drain_calls) \cap DrainedBy(suspended.drain_calls) # {}


-----------------------------------------------------------------------------
(* _start_draining_instances called on its own: one bulk drain of a list of
   container instances, and what the call hands back to its caller. *)

\* the invocations whose settings reach the bulk drain: the dry-run flag
DrainArgs(variant, py) ==
    {[variant |-> variant, py |-> py, count |-> 1, dry_run |-> dry,
      ignore_list |-> IgnoreList(<< <<"b">> >>), MAX_WAIT |-> MaxWaitUnset,
      instance_ids |-> <<>>, alarm |-> "none"] : dry \in BOOLEAN}

\* the lists the function is called with: one host, or two in either order
DrainLists ==
    {<<i>> : i \in 1..Len(hosts)}
    \cup ({<<i, j>> : i, j \in 1..Len(hosts)} \ {<<i, i>> : i \in 1..Len(hosts)})

InitDrain ==
    \E variant \in {"poll", "ecs", "lambda"} :
    \E py \in Interpreters(variant) :
    \E a \in DrainArgs(variant, py) :
    \E h \in RunClusters(variant) :
    \E g \in ScalingGroups :
    \E f \in 0..MaxFaults :
        /\ UntouchedCluster(h)
        /\ EnteredWithFaults("start_draining", a, h, g, f)

\* the call and its return
StartDraining ==
    /\ pc = "start_draining"
    /\ \E list \in DrainLists :
       \E resp \in DrainResponses(list) :
          LET d == IF Polling THEN poll_start_draining_instances(list, resp)
                   ELSE start_draining_instances(list, resp)
          IN  /\ terminate_list' = list
              /\ drain_calls' = d.calls
              /\ hosts' = hosts_after(d.drained, {})
              /\ faults' = IF resp.kind = "ok" THEN faults ELSE faults - 1
              /\ errors' = d.errors
              /\ ret' = d.ret
    /\ pc' = "done"
    /\ UNCHANGED <<suspended, runs, termination, listed, args, draining_instances,
                   container_instance_id,
                   asg, clock, sweeps, ordered_instances, decrease_count, azs, az_names,
                   x, idx, term_calls>>

NextDrain == StartDraining

SpecDrain == InitDrain /\ [][NextDrain]_vars

\* the response had status 200 and an empty failures list: the call was
\* issued, nothing was logged, and every host of the list is DRAINING
DrainSucceeded ==
    /\ drain_calls = <<terminate_list>>
    /\ errors = {}
    /\ \A i \in Range(terminate_list) : hosts[i].status = "DRAINING"

\* C27: the bulk drain returns a boolean, never an exception and never an
\* undefined result: True exactly when the response has status 200 and an
\* empty failures list, False otherwise.
C27_BulkDrainBoolean ==
    pc = "done" =>
        /\ ret \in {"True", "False"}
        /\ ret = "True" <=> DrainSucceeded


-----------------------------------------------------------------------------
(* The gating alarm. *)

\* the hosts in DRAINING state
Draining(h) == {i \in 1..Len(h) : h[i].status = "DRAINING"}

\* C28: when a gating alarm name is given and that alarm is not in ALARM
\* state, the run puts no new host into DRAINING: it issues no drain call,
\* ranks no listing, plans no host and resolves no instance id, and no step of
\* it turns a host DRAINING; with or without explicit instance ids.
C28_AlarmGate ==
    /\ [](args.alarm = "not_in_alarm" =>
             /\ drain_calls = <<>>
             /\ ordered_instances = <<>>
             /\ terminate_list = <<>>
             /\ container_instance_id = 0)
    /\ [][args.alarm = "not_in_alarm" => Draining(hosts') \subseteq Draining(hosts)]_vars

\* a run with explicit instance ids of ACTIVE hosts and a positive count that
\* has ended at the gate
C28_Witness ==
    /\ pc = "done"
    /\ args.alarm = "not_in_alarm"
    /\ args.count > 0
    /\ ~args.dry_run
    /\ ret = alarm_not_in_alarm
    /\ args.instance_ids # <<>>
    /\ \A k \in 1..Len(args.instance_ids) :
          /\ args.instance_ids[k] \in 1..Len(hosts)
          /\ hosts[args.instance_ids[k]].status = "ACTIVE"


-----------------------------------------------------------------------------
(* The clean-up of the zone-balanced entry points. *)

\* the hosts of the DRAINING listing whose removal has been attempted when the
\* clean-up loop is left: the hosts before idx, and the host at idx as well
\* if it is its removal that raised
AttemptedOnLeaving == IF Raised(ret') THEN idx + 1 ELSE idx

\* C29: a zone-balanced invocation begins with the clean-up: it lists the
\* hosts in DRAINING state and attempts the removal of each of them before
\* the count check and the alarm gate, whatever the alarm's state; up to
\* there it drains and plans nothing; and an invocation with count 0 does
\* nothing else: it ends after the clean-up with no drain call.
C29_CleanUpFirst ==
    /\ [][(ZoneBalanced /\ pc = "main")
             => /\ pc' = "preflight"
                /\ Range(draining_instances') = Draining(hosts)]_vars
    /\ [][(ZoneBalanced /\ pc = "preflight" /\ pc' # "preflight")
             => AttemptedOnLeaving = Len(draining_instances)]_vars
    /\ []((ZoneBalanced /\ pc \in {"main", "preflight"})
             => /\ drain_calls = <<>>
                /\ ordered_instances = <<>>
                /\ terminate_list = <<>>)
    /\ []((ZoneBalanced /\ args.count <= 0)
             => /\ pc \in {"main", "preflight", "done"}
                /\ drain_calls = <<>>
                /\ terminate_list = <<>>)


-----------------------------------------------------------------------------
(* remove_container_instance_from_ecs_cluster called on its own: the removal
   of one container instance, and what the call hands back. *)

\* the invocations whose settings reach the removal: dry run and ignore list
RemoveArgs(variant, py) ==
    {[variant |-> variant, py |-> py, count |-> 1, dry_run |-> dry,
      ignore_list |-> il, MAX_WAIT |-> MaxWaitUnset,
      instance_ids |-> <<>>, alarm |-> "none"] :
        dry \in BOOLEAN, il \in {NoIgnoreList, IgnoreList(<< <<"b">> >>)}}

InitRemove ==
    \E variant \in {"ecs", "lambda"} :
    \E py \in Interpreters(variant) :
    \E a \in RemoveArgs(variant, py) :
    \E h \in RunClusters(variant) :
    \E g \in ScalingGroups :
    \E f \in 0..MaxFaults :
        EnteredWithFaults("remove_container_instance", a, h, g, f)

\* the call, on a container instance of the cluster or on an id of none (0),
\* and its return
RemoveContainerInstance ==
    /\ pc = "remove_container_instance"
    /\ \E ci \in 0..Len(hosts) :
       \E resp \in TerminateResponses :
          LET r == remove_container_instance_from_ecs_cluster(ci, resp)
          IN  /\ container_instance_id' = ci
              /\ term_calls' = r.calls
              /\ hosts' = hosts_after({}, r.gone)
              /\ resp # "ok" => r.terminating
              /\ faults' = IF resp = "ok" THEN faults ELSE faults - 1
              /\ errors' = r.errors
              /\ ret' = r.ret
    /\ pc' = "done"
    /\ UNCHANGED <<suspended, runs, termination, listed, args,
                   draining_instances, asg, clock, sweeps, ordered_instances,
                   decrease_count, azs, az_names, terminate_list, x, idx, drain_calls>>

NextRemove == RemoveContainerInstance

SpecRemove == InitRemove /\ [][NextRemove]_vars

\* the host the operation is called on is in the DRAINING listing it reads and
\* the terminability predicate holds for it
ListedAndTerminable(ci) ==
    /\ ci \in Range(get_instances_in_cluster("DRAINING"))
    /\ Truthy(can_be_terminated(ci, args.ignore_list))

\* C30: outside a dry run the removal of a host issues a terminate call only
\* if the host is in the DRAINING listing read by the operation and the
\* terminability predicate holds for it; otherwise the operation returns False
\* and issues no terminate call.
C30_TerminateOnlyDrainingTerminable ==
    [][(pc = "remove_container_instance" /\ ~args.dry_run)
          => /\ term_calls' # <<>> => ListedAndTerminable(container_instance_id')
             /\ ~ListedAndTerminable(container_instance_id')
                   => (ret' = "False" /\ term_calls' = <<>>)]_vars


-----------------------------------------------------------------------------
(* The bulk drain of an auto-selected run. *)

\* a run that selects its hosts itself and is not a dry run
AutoSelectedRun == args.instance_ids = <<>> /\ ~args.dry_run

\* C31: an auto-selected run that reaches its drain step issues exactly one
\* drain-state call, for exactly the hosts of its plan, and no terminate call
\* for a host of the plan has been issued before it.
C31_OneDrainBeforeTerminate ==
    /\ [][(AutoSelectedRun /\ pc = "drain")
             => /\ drain_calls = <<>>
                /\ drain_calls' = <<terminate_list>>
                /\ Range(term_calls) \cap Range(terminate_list) = {}]_vars
    /\ [][(AutoSelectedRun /\ drain_calls # <<>>) => drain_calls' = drain_calls]_vars
    /\ []((AutoSelectedRun /\ pc \in {"remove", "poll"}) => Len(drain_calls) = 1)
    /\ []((AutoSelectedRun /\ drain_calls = <<>> /\ pc \in {"select", "drain"})
             => Range(term_calls) \cap Range(terminate_list) = {})

\* a run that drained a plan of two hosts in its one call and has then
\* terminated a host of it
C31_Witness ==
    /\ AutoSelectedRun
    /\ pc = "done"
    /\ Len(drain_calls) = 1
    /\ Len(drain_calls[1]) >= 2
    /\ Range(term_calls) \cap PlanDrained # {}


-----------------------------------------------------------------------------
(* The polling functions called by a program that sets MAX_WAIT itself: the
   module's global is then an int of hours, and the escalation of the loops
   can be taken. *)

\* hosts of the cluster of such a call
MaxDeadlineHosts == 3

\* MAX_WAIT as a caller sets it
MaxWaitSet(h) == [type |-> "int", val |-> h]

DeadlineArgs ==
    {[variant |-> "poll", py |-> py, count |-> count, dry_run |-> dry,
      ignore_list |-> NoIgnoreList, MAX_WAIT |-> MaxWaitSet(h), instance_ids |-> ids,
      alarm |-> "none"] :
        py \in Interpreters("poll"),
        count \in 1..MaxRunCount,
        dry \in BOOLEAN,
        h \in 1..MaxWaitHours,
        ids \in SeqsOf(1..MaxDeadlineHosts, 0, 1)}

\* scale_down_ecs_cluster or remove_instance_from_ecs_cluster is called
InitDeadline ==
    \E a \in DeadlineArgs : \E h \in RunClusters("poll") :
    \E g \in {[tag |-> FALSE, MinSize |-> 0], [tag |-> TRUE, MinSize |-> 0]} :
    \E f \in 0..MaxFaults :
        /\ Len(h) <= MaxDeadlineHosts
        /\ EnteredWithFaults(IF a.instance_ids = <<>> THEN "scale_down"
                             ELSE "remove_instance", a, h, g, f)

NextDeadline ==
    \/ PollRemoveInstance
    \/ PollRemoveInstanceSweep
    \/ PollRank
    \/ PollFloor
    \/ PollDrain
    \/ PollCheck
    \/ PollSweepEnd
    \/ TaskStops

SpecDeadline == InitDeadline /\ [][NextDeadline]_vars

\* how many times a sequence names e
Occurrences(s, e) == Cardinality({k \in 1..Len(s) : s[k] = e})

\* the hosts the batch loop still waits for
PendingSet == Range(terminate_list)

\* C32: in the batch polling loop the pending set only shrinks; outside a dry
\* run a host leaves it exactly on a step that issues a terminate call for
\* it; no planned host ever receives a second terminate call, the sweep that
\* exceeds the deadline included; and when the run returns True outside a dry
\* run, every planned host has received exactly one.
C32_PendingSetShrinks ==
    /\ [][(Polling /\ pc = "poll") => PendingSet' \subseteq PendingSet]_vars
    /\ [][(Polling /\ pc = "poll" /\ ~args.dry_run /\ ~Raised(ret'))
             => \A h \in PendingSet :
                   h \notin PendingSet'
                      <=> Occurrences(term_calls', h) = Occurrences(term_calls, h) + 1]_vars
    /\ []((Polling /\ args.instance_ids = <<>>)
             => \A h \in 1..Len(hosts) : Occurrences(term_calls, h) <= 1)
    /\ []((Polling /\ args.instance_ids = <<>> /\ ~args.dry_run
              /\ pc = "done" /\ ret = "True")
             => \A h \in PlanDrained : Occurrences(term_calls, h) = 1)

\* a run that has returned True on the sweep that exceeded the deadline: one
\* of its two hosts was terminated when it became terminable, the other by the
\* escalation
C32_Witness ==
    /\ Polling
    /\ args.instance_ids = <<>>
    /\ ~args.dry_run
    /\ pc = "done"
    /\ ret = "True"
    /\ running_time_hours > args.MAX_WAIT.val
    /\ Len(term_calls) = 2
    /\ \E h \in PlanDrained : hosts[h].tasks # <<>>
    /\ \E h \in PlanDrained : hosts[h].tasks = <<>>


-----------------------------------------------------------------------------
(* The zone-balancing tool invoked again and again, as a schedule does, while
   the tasks of the hosts it left DRAINING stop between its runs. *)

\* hosts of the cluster of such a schedule
MaxCleanUpHosts == 3

\* the invocations of the schedule: count, dry run, ignore list, alarm state
CleanUpArgs(variant) ==
    {[variant |-> variant, py |-> 3, count |-> count, dry_run |-> dry,
      ignore_list |-> il, MAX_WAIT |-> MaxWaitUnset,
      instance_ids |-> <<>>, alarm |-> alarm] :
        count \in 0..MaxRunCount,
        dry \in BOOLEAN,
        il \in {NoIgnoreList, IgnoreList(<< <<"b">> >>)},
        alarm \in {"none", "not_in_alarm"}}

InitCleanUp ==
    \E variant \in {"ecs", "lambda"} :
    \E a \in CleanUpArgs(variant) :
    \E h \in RunClusters(variant) :
    \E g \in ScalingGroups :
        /\ Len(h) <= MaxCleanUpHosts
        /\ UntouchedCluster(h)
        /\ Entered("main", a, h, g)

\* the next invocation of the schedule: a new process with its own arguments
CleanUpInvocation ==
    /\ pc = "done"
    /\ runs < MaxRuns
    /\ \E a \in CleanUpArgs(args.variant) :
          /\ args' = a
          /\ decrease_count' = a.count
    /\ runs' = runs + 1
    /\ pc' = "main"
    /\ clock' = 0
    /\ sweeps' = 0
    /\ draining_instances' = <<>>
    /\ container_instance_id' = 0
    /\ ordered_instances' = <<>>
    /\ azs' = <<>>
    /\ az_names' = <<>>
    /\ terminate_list' = <<>>
    /\ x' = 0
    /\ idx' = 0
    /\ drain_calls' = <<>>
    /\ term_calls' = <<>>
    /\ errors' = {}
    /\ ret' = "running"
    /\ UNCHANGED <<suspended, termination, listed, hosts, asg, faults>>

\* The environment: between two runs a task of a DRAINING host stops.
TaskStopsBetweenRuns ==
    /\ pc = "done"
    /\ \E i \in 1..Len(hosts) :
          /\ hosts[i].status = "DRAINING"
          /\ hosts[i].tasks # <<>>
          /\ \E k \in 1..Len(hosts[i].tasks) :
                hosts' = [hosts EXCEPT ![i].tasks =
                             SubSeq(@, 1, k - 1) \o SubSeq(@, k + 1, Len(@))]
    /\ UNCHANGED <<suspended, runs, termination, listed, args,
                   draining_instances, container_instance_id, asg, faults, clock,
                   sweeps, pc, ordered_instances, decrease_count, azs, az_names,
                   terminate_list, x, idx, drain_calls, term_calls, errors, ret>>

NextCleanUp ==
    \/ MainPreflight
    \/ MainPreflightRemove
    \/ MainGate
    \/ ScaleDownRank
    \/ ScaleDownFloor
    \/ ScaleDownZones
    \/ ScaleDownSelect
    \/ ScaleDownDrain
    \/ ScaleDownRemove
    \/ ScaleDownReturn
    \/ CleanUpInvocation
    \/ TaskStopsBetweenRuns

SpecCleanUp == InitCleanUp /\ [][NextCleanUp]_vars

\* the hosts the clean-up listed that are still DRAINING and terminable
LeftTerminable ==
    {h \in Range(draining_instances) :
        /\ hosts[h].status = "DRAINING"
        /\ Truthy(can_be_terminated(h, args.ignore_list))}

\* C34: a host left in DRAINING by an earlier run is terminated by the
\* clean-up of the next invocation that is not a dry run and finds it
\* terminable, whatever the count and the alarm state of that invocation: no
\* such invocation leaves its clean-up, by going on or by ending, with a
\* listed host still DRAINING and terminable.
C34_CleanUpTerminates ==
    [][(ZoneBalanced /\ ~args.dry_run /\ pc = "preflight" /\ pc' # "preflight")
          => LeftTerminable = {}]_vars


-----------------------------------------------------------------------------
(* Removal by explicit instance id in the zone-balanced variants. *)

\* the instance id the next iteration of the entry point's loop passes
NextInstanceId == args.instance_ids[idx + 1]

\* the id is of an ACTIVE host of the cluster, or of no host of it
ActiveOrUnknown(id) ==
    \/ id \notin 1..Len(hosts)
    \/ hosts[id].status \in {"ACTIVE", "GONE"}

\* C35 as stated: removal by explicit id never issues a drain-state call, and
\* for an ACTIVE target or an id of no host it returns False with no terminate
\* call.
C35_ByIdReturnsFalse ==
    [][(ZoneBalanced /\ pc = "by_instance_id")
          => /\ drain_calls' = drain_calls
             /\ ActiveOrUnknown(NextInstanceId)
                   => (ret' = "False" /\ term_calls' = term_calls /\ hosts' = hosts)]_vars

\* C35, amended: removal by explicit id never issues a drain-state call, and
\* for an ACTIVE target or an id of no host it issues no terminate call and
\* returns False, or True in a dry run.
C35_ByIdNeverDrains ==
    [][(ZoneBalanced /\ pc = "by_instance_id")
          => /\ drain_calls' = drain_calls
             /\ ActiveOrUnknown(NextInstanceId)
                   => /\ ret' = IF args.dry_run THEN "True" ELSE "False"
                      /\ term_calls' = term_calls
                      /\ hosts' = hosts]_vars

\* a run that has been asked, not as a dry run, to remove an ACTIVE idle host
\* by its id and has returned False, the host ACTIVE as before
C35_Witness ==
    /\ ZoneBalanced
    /\ ~args.dry_run
    /\ pc = "done"
    /\ Len(args.instance_ids) = 1
    /\ container_instance_id = args.instance_ids[1]
    /\ container_instance_id # 0
    /\ hosts[container_instance_id].status = "ACTIVE"
    /\ hosts[container_instance_id].tasks = <<>>
    /\ ret = "False"
    /\ drain_calls = <<>>
    /\ term_calls = <<>>


-----------------------------------------------------------------------------
(* The shape of the plan.  Checked under SpecSelect. *)

\* no element of the sequence appears twice in it
NoDuplicates(s) == \A i, j \in 1..Len(s) : i # j => s[i] # s[j]

\* C36: the plan of an auto-selected run names no host twice and only hosts
\* of the ranked listing, and the two-zone loop never takes from an empty zone
\* list (it never ends in an IndexError), whatever the floor and the count.
C36_PlanWellFormed ==
    args.instance_ids = <<>> =>
        /\ NoDuplicates(terminate_list)
        /\ Range(terminate_list) \subseteq Listed
        /\ (ZoneBalanced /\ pc = "select") => azs[zone_to_take_from(azs, az_names)] # <<>>
        /\ ret # "IndexError"

\* a two-zone selection that has emptied one of its zone lists and planned
\* every host but one
C36_Witness ==
    /\ ZoneBalanced
    /\ pc = "drain"
    /\ Len(az_names) = 2
    /\ \E z \in Range(az_names) : azs[z] = <<>>
    /\ Len(terminate_list) >= 2
    /\ Len(terminate_list) = Len(ordered_instances) - Floor


-----------------------------------------------------------------------------
(* The terminability check without an ignore list.  Checked under
   SpecCanTerminate. *)

\* C37: with no ignore list given, the check of a host that runs at least one
\* task ends with the answer "not terminable", not with an error, in the
\* command-line variant as in the event handler.
C37_NoIgnoreListNotTerminable ==
    (ZoneBalanced /\ args.ignore_list.none /\ pc = "done" /\ hosts[1].tasks # <<>>)
       => (~Raised(ret) /\ ~Truthy(ret))


-----------------------------------------------------------------------------
(* The deadline of the polling loops. *)

\* the first second at which the whole elapsed hours exceed the maximum wait
DeadlineSeconds == (args.MAX_WAIT.val + 1) * SecondsPerHour

\* the step is a sweep's end that force-terminates: the batch loop's
\* escalation, which alone issues terminate calls at the end of a sweep, or
\* the explicit-host loop terminating a host it did not find terminable, or
\* terminating twice
Forced ==
    \/ PollSweepEnd /\ term_calls' # term_calls
    \/ /\ PollRemoveInstanceSweep
       /\ \/ Len(term_calls') >= Len(term_calls) + 2
          \/ /\ term_calls' # term_calls
             /\ ~Truthy(poll_can_be_terminated(container_instance_id))

\* the step is a sweep's end with a host still pending
SweepEndsPending ==
    \/ PollSweepEnd /\ terminate_list # <<>>
    \/ /\ PollRemoveInstanceSweep
       /\ ~Truthy(poll_can_be_terminated(container_instance_id))
       /\ ~Raised(poll_can_be_terminated(container_instance_id))

\* C38: with a maximum wait of H hours the escalation compares whole elapsed
\* hours strictly against H: no sweep force-terminates before (H + 1) * 3600
\* seconds have elapsed, and every sweep that ends at or after that point with
\* a host pending does (outside a dry run, the backing calls succeeding).
C38_DeadlineInWholeHours ==
    /\ [][(Polling /\ MaxWaitConfigured /\ clock < DeadlineSeconds) => ~Forced]_vars
    /\ [][(Polling /\ MaxWaitConfigured /\ ~args.dry_run /\ faults = 0
              /\ clock >= DeadlineSeconds /\ SweepEndsPending)
             => Forced]_vars


-----------------------------------------------------------------------------
(* Dry runs, followed to their end.  The run is a process that keeps running:
   each of its steps is taken once it can be, and every sleep returns.  The
   tasks of the cluster stop or keep running as they please. *)

\* hosts of the cluster of a dry run
MaxDryRunHosts == 2

\* the dry runs among the invocations of a whole run
DryRunArgs(variant) == {a \in RunArgs(variant) \cup GatedArgs(variant) : a.dry_run}

InitDryRun ==
    \E variant \in {"poll", "ecs", "lambda"} :
    \E a \in DryRunArgs(variant) : \E h \in RunClusters(variant) :
    \E g \in {[tag |-> FALSE, MinSize |-> 0], [tag |-> TRUE, MinSize |-> 1]} :
        /\ Len(h) <= MaxDryRunHosts
        /\ Entered("main", a, h, g)

\* a step of the run itself
DryRunStep ==
    \/ MainPreflight
    \/ MainPreflightRemove
    \/ MainGate
    \/ RemoveByInstanceId
    \/ ScaleDownRank
    \/ ScaleDownFloor
    \/ ScaleDownZones
    \/ ScaleDownSelect
    \/ ScaleDownDrain
    \/ ScaleDownRemove
    \/ ScaleDownReturn
    \/ PollMain
    \/ PollRemoveInstance
    \/ PollRemoveInstanceSweep
    \/ PollRank
    \/ PollFloor
    \/ PollDrain
    \/ PollCheck
    \/ PollSweepEnd

NextDryRun ==
    \/ MainPreflight
    \/ MainPreflightRemove
    \/ MainGate
    \/ RemoveByInstanceId
    \/ ScaleDownRank
    \/ ScaleDownFloor
    \/ ScaleDownZones
    \/ ScaleDownSelect
    \/ ScaleDownDrain
    \/ ScaleDownRemove
    \/ ScaleDownReturn
    \/ PollMain
    \/ PollRemoveInstance
    \/ PollRemoveInstanceSweep
    \/ PollRank
    \/ PollFloor
    \/ PollDrain
    \/ PollCheck
    \/ PollSweepEnd
    \/ TaskStops

SpecDryRun == InitDryRun /\ [][NextDryRun]_vars /\ WF_vars(DryRunStep)

\* the run is over: it returned, exited or ended in an exception
RunOver == pc = "done"

\* C39: a dry run always comes to its end, whatever the tasks of the cluster
\* do: also a polling run whose planned host keeps running a task, with no
\* maximum wait configured.
C39_DryRunCompletes == [](args.dry_run => <>RunOver)


=============================================================================
